---- MODULE Spec2Model ----
(***************************************************************************)
(* CREDA screening core: decision engine, authenticity scorer, skill       *)
(* mapper, follow-up engine and the interview session driven by            *)
(* InterviewChat.jsx and App.jsx.                                          *)
(***************************************************************************)
EXTENDS Integers, Sequences, FiniteSets, TLC

VARIABLES
    metrics,          \* DecisionEngine: the metrics object given to makeDecision
    decisionResult,   \* DecisionEngine: the object makeDecision returned
    earlierDecision,  \* DecisionEngine: the metrics and the result of the call before this one
    qaInput,          \* AuthenticityScorer: the qaPairs list given to calculateOverallAuthenticity
    authResult,       \* AuthenticityScorer: the object calculateOverallAuthenticity returned
    resumeText,       \* SkillMapper: the resume text given to mapSkillsToRequirements
    resumePieces,     \* the number of pieces the resume text was typed from
    jobDescription,   \* SkillMapper: requiredSkills and preferredSkills of the screening
    mapResult,        \* SkillMapper: what mapSkillsToRequirements returned, or Thrown
    scoreResult,      \* AuthenticityScorer: what scoreAnswerAuthenticity returned, or Thrown
    answerText,       \* textAnalysis: the answer text given to the text functions
    answerPieces,     \* the number of pieces the answer text was typed from
    textResult,       \* textAnalysis: what the text functions returned for answerText
    questionInput,    \* QuestionGenerator: the skillMapping and focusSkills arguments
    generated,        \* QuestionGenerator: the questions generated for questionInput
    screenings,       \* server: the rows of the screenings table, in insertion order
    tabs,             \* the browser tabs of applicants: step, code, email, screeningId
    followUpCall,     \* FollowUpEngine: the templates used and selected so far, and the last call
    phase,            \* App: the phase state
    skillMapping,     \* App: the skillMapping state, NoResult for null
    questions,        \* App: the questions state
    screeningId,      \* App: the screeningId state, 0 for null
    recruiterReport,  \* App: the report last set by setRecruiterReport, NoResult for null
    aiAvailable,      \* aiService: whether API_KEY is set
    usedTemplates,    \* FollowUpEngine: the module-level set usedTemplates
    database,         \* the updateScreening requests the server has applied
    completeRuns,     \* the handleInterviewComplete calls that have not returned yet
    currentQuestionIndex, \* InterviewChat state
    isTyping,         \* InterviewChat state
    interviewComplete, \* InterviewChat state
    qaPairs,          \* InterviewChat state
    followUpCount,    \* InterviewChat state
    pendingAnswer,    \* the processAnswer call waiting in its 300 ms await, with its closure
    completionTimer,  \* the pending setTimeout(() => onComplete(allQaPairs), 1000)
    session,          \* the number of resume submissions so far
    submitted,        \* the answers of this session in the order addUserMessage showed them
    onCompleteCalls,  \* the calls of onComplete so far
    followUps,        \* the follow-up questions issued in this session
    answers           \* the number of answers submitted on this page so far

decisionVars == <<metrics, decisionResult, earlierDecision>>
authVars == <<qaInput, authResult>>
skillVars == <<resumeText, resumePieces, jobDescription, mapResult, scoreResult>>
textVars == <<answerText, answerPieces, textResult>>
questionVars == <<questionInput, generated>>
codeVars == <<screenings, tabs>>
followUpVars == <<followUpCall>>

appVars == <<phase, skillMapping, questions, screeningId, recruiterReport, aiAvailable,
            usedTemplates, database, completeRuns>>
chatVars == <<currentQuestionIndex, isTyping, interviewComplete, qaPairs, followUpCount>>
timerVars == <<pendingAnswer, completionTimer>>
ghostVars == <<session, submitted, onCompleteCalls, followUps, answers>>
interviewVars == <<appVars, chatVars, timerVars, ghostVars>>

vars == <<metrics, decisionResult, earlierDecision, qaInput, authResult,
          resumeText, resumePieces, jobDescription, mapResult, scoreResult,
          answerText, answerPieces, textResult,
          questionInput, generated,
          screenings, tabs,
          followUpCall,
          interviewVars>>

NoResult == [none |-> TRUE]

\* Math.round for a non-negative rational n/d: halves go up.
Round(n, d) == (2 * n + d) \div (2 * d)

Max2(a, b) == IF a >= b THEN a ELSE b
Min2(a, b) == IF a <= b THEN a ELSE b

(***************************************************************************)
(* DecisionEngine.js                                                       *)
(***************************************************************************)
EVALUATION_THRESHOLDS ==
    [pass |-> [skillMatch |-> 70, authenticity |-> 65, overall |-> 70],
     hold |-> [skillMatch |-> 50, authenticity |-> 50, overall |-> 50]]

AutoRejectAuthenticity == 40
AutoRejectSkillMatch == 35

\* the weights of makeDecision, in hundredths
WeightSkillMatch == 30
WeightDepth == 20
WeightAuthenticity == 25
WeightCommunication == 10
WeightConsistency == 15

\* the skillMatch term counted against the candidate
overallScore_penalised(m) ==
    Round(WeightSkillMatch * (100 - m.skillMatch)
          + WeightDepth * m.depth
          + WeightAuthenticity * m.authenticity
          + WeightCommunication * m.communication
          + WeightConsistency * m.consistency, 100)

overallScore_swapped(m) ==
    Round(WeightSkillMatch * m.skillMatch
          + WeightAuthenticity * m.depth
          + WeightDepth * m.authenticity
          + WeightCommunication * m.communication
          + WeightConsistency * m.consistency, 100)

\* const overallScore = Math.round(skillMatch*0.30 + depth*0.20 + ...)
overallScoreOf(m) ==
    Round(WeightSkillMatch * m.skillMatch
          + WeightDepth * m.depth
          + WeightAuthenticity * m.authenticity
          + WeightCommunication * m.communication
          + WeightConsistency * m.consistency, 100)

\* two independent ifs: each automatic fail pushes its concern
earlyDecision_both(m) ==
    LET first == IF m.authenticity < AutoRejectAuthenticity
                 THEN <<"Significant authenticity concerns">> ELSE <<>>
        second == IF m.skillMatch < AutoRejectSkillMatch
                  THEN <<"Critical skill gaps for this role">> ELSE <<>>
    IN [decision |-> IF first \o second = <<>> THEN "" ELSE "REJECT",
        concerns |-> first \o second]

\* the automatic fails: decision and the concern pushed, or "" when unset
earlyDecision(m) ==
    IF m.authenticity < AutoRejectAuthenticity
    THEN [decision |-> "REJECT", concerns |-> <<"Significant authenticity concerns">>]
    ELSE IF m.skillMatch < AutoRejectSkillMatch
         THEN [decision |-> "REJECT", concerns |-> <<"Critical skill gaps for this role">>]
         ELSE [decision |-> "", concerns |-> <<>>]

\* HOLD taken as the band below the pass mark
normalDecision_holdBand(m, overall) ==
    IF overall >= EVALUATION_THRESHOLDS.pass.overall
       /\ m.skillMatch >= EVALUATION_THRESHOLDS.pass.skillMatch
       /\ m.authenticity >= EVALUATION_THRESHOLDS.pass.authenticity
    THEN "PASS"
    ELSE IF overall >= EVALUATION_THRESHOLDS.hold.overall
            /\ overall < EVALUATION_THRESHOLDS.pass.overall
            /\ m.skillMatch >= EVALUATION_THRESHOLDS.hold.skillMatch
         THEN "HOLD"
         ELSE "REJECT"

normalDecision_noAuthenticity(m, overall) ==
    IF overall >= EVALUATION_THRESHOLDS.pass.overall
       /\ m.skillMatch >= EVALUATION_THRESHOLDS.pass.skillMatch
    THEN "PASS"
    ELSE IF overall >= EVALUATION_THRESHOLDS.hold.overall
            /\ m.skillMatch >= EVALUATION_THRESHOLDS.hold.skillMatch
         THEN "HOLD"
         ELSE "REJECT"

\* the normal decision flow, taken when no automatic fail set the decision
normalDecision(m, overall) ==
    IF overall >= EVALUATION_THRESHOLDS.pass.overall
       /\ m.skillMatch >= EVALUATION_THRESHOLDS.pass.skillMatch
       /\ m.authenticity >= EVALUATION_THRESHOLDS.pass.authenticity
    THEN "PASS"
    ELSE IF overall >= EVALUATION_THRESHOLDS.hold.overall
            /\ m.skillMatch >= EVALUATION_THRESHOLDS.hold.skillMatch
         THEN "HOLD"
         ELSE "REJECT"

\* the reasons and concerns generated from the metrics, in push order
skillMatchNote(m) ==
    IF m.skillMatch >= 70 THEN [r |-> <<"Strong alignment with required skills">>, c |-> <<>>]
    ELSE IF m.skillMatch >= 50
         THEN [r |-> <<>>, c |-> <<"Partial skill coverage - gaps in some areas">>]
         ELSE [r |-> <<>>, c |-> <<"Significant skill gaps for core requirements">>]

authenticityNote(m) ==
    IF m.authenticity >= 70 THEN [r |-> <<"Demonstrated genuine personal experience">>, c |-> <<>>]
    ELSE IF m.authenticity >= 50
         THEN [r |-> <<>>, c |-> <<"Some answers lacked specific details">>]
         ELSE [r |-> <<>>, c |-> <<"Answers appeared generic or rehearsed">>]

depthNote(m) ==
    IF m.depth >= 70 THEN [r |-> <<"Good technical depth in responses">>, c |-> <<>>]
    ELSE IF m.depth < 50
         THEN [r |-> <<>>, c |-> <<"Limited technical depth shown">>]
         ELSE [r |-> <<>>, c |-> <<>>]

consistencyNote(m) ==
    IF m.consistency >= 70 THEN [r |-> <<"Consistent quality across answers">>, c |-> <<>>]
    ELSE IF m.consistency < 50
         THEN [r |-> <<>>, c |-> <<"Inconsistent depth across topics">>]
         ELSE [r |-> <<>>, c |-> <<>>]

makeDecision(m) ==
    LET overall == overallScoreOf(m)
        early == earlyDecision(m)
        decision == IF early.decision = "" THEN normalDecision(m, overall)
                    ELSE early.decision
    IN [decision |-> decision,
        overallScore |-> overall,
        metrics |-> m,
        reasons |-> skillMatchNote(m).r \o authenticityNote(m).r
                    \o depthNote(m).r \o consistencyNote(m).r,
        concerns |-> early.concerns \o skillMatchNote(m).c \o authenticityNote(m).c
                     \o depthNote(m).c \o consistencyNote(m).c]

(***************************************************************************)
(* Strings are sequences of one-character strings, so that the regular     *)
(* expressions and substring tests of the source are computed on the text. *)
(***************************************************************************)
LowerLetters == <<"a", "b", "c", "d", "e", "f", "g", "h", "i", "j", "k", "l", "m",
                  "n", "o", "p", "q", "r", "s", "t", "u", "v", "w", "x", "y", "z">>
UpperLetters == <<"A", "B", "C", "D", "E", "F", "G", "H", "I", "J", "K", "L", "M",
                  "N", "O", "P", "Q", "R", "S", "T", "U", "V", "W", "X", "Y", "Z">>
Digits == {"0", "1", "2", "3", "4", "5", "6", "7", "8", "9"}

Range(f) == {f[i] : i \in DOMAIN f}

\* \w of a JavaScript regular expression
IsWordChar(c) == c \in Range(LowerLetters) \cup Range(UpperLetters) \cup Digits \cup {"_"}

toLowerChar(c) ==
    IF c \in Range(UpperLetters)
    THEN LowerLetters[CHOOSE i \in 1..26 : UpperLetters[i] = c]
    ELSE c

\* String.prototype.toLowerCase
toLowerCase(str) == [i \in 1..Len(str) |-> toLowerChar(str[i])]

toUpperChar(c) ==
    IF \E k \in 1..26 : LowerLetters[k] = c
    THEN UpperLetters[CHOOSE k \in 1..26 : LowerLetters[k] = c]
    ELSE c

\* String.prototype.toUpperCase
toUpperCase(str) == [i \in 1..Len(str) |-> toUpperChar(str[i])]

\* the pattern occurs at position i, compared as the "i" flag compares
MatchAt(str, pat, i) ==
    /\ i >= 1
    /\ i + Len(pat) - 1 <= Len(str)
    /\ \A j \in 1..Len(pat) : toLowerChar(str[i + j - 1]) = toLowerChar(pat[j])

\* \b between str[p-1] and str[p]
WordBoundary(str, p) ==
    LET isWordAt(k) == k \in 1..Len(str) /\ IsWordChar(str[k])
    IN isWordAt(p - 1) # isWordAt(p)

\* /\bpat\b/i matches at position i
WholeWordAt(str, pat, i) ==
    /\ MatchAt(str, pat, i)
    /\ WordBoundary(str, i)
    /\ WordBoundary(str, i + Len(pat))

\* str.match(/\bpat\b/gi): the number of matches, found left to right
\* without overlap, among the match positions from position i on
RECURSIVE CountWholeWordFrom(_, _, _)
CountWholeWordFrom(positions, patLength, i) ==
    LET next == {x \in positions : x >= i}
    IN IF next = {} THEN 0
       ELSE LET m == CHOOSE x \in next : \A y \in next : x <= y
            IN 1 + CountWholeWordFrom(positions, patLength, m + Max2(patLength, 1))

CountWholeWord(str, pat) ==
    CountWholeWordFrom({i \in 1..Len(str) : WholeWordAt(str, pat, i)}, Len(pat), 1)

\* String.prototype.includes (case-sensitive)
includes(str, pat) ==
    \E i \in 1..(Len(str) - Len(pat) + 1) :
        \A j \in 1..Len(pat) : str[i + j - 1] = pat[j]

\* String.prototype.trim
RECURSIVE trimLeft(_)
trimLeft(str) ==
    IF str # <<>> /\ Head(str) = " " THEN trimLeft(Tail(str)) ELSE str

RECURSIVE trimRight(_)
trimRight(str) ==
    IF str # <<>> /\ str[Len(str)] = " " THEN trimRight(SubSeq(str, 1, Len(str) - 1)) ELSE str

trim(str) == trimRight(trimLeft(str))

RegExpQuantifiers == {"+", "*", "?"}

\* new RegExp(`\\b${skill}\\b`, ...) with the skill text inserted unescaped:
\* a quantifier that follows the \b assertion or another quantifier (other
\* than a single lazy "?") is "Nothing to repeat", a SyntaxError.
skillPatternCompiles(skill) ==
    ~ \E i \in 1..Len(skill) :
        /\ skill[i] \in RegExpQuantifiers
        /\ \/ i = 1
           \/ skill[i - 1] \in RegExpQuantifiers /\ skill[i] # "?"
           \/ i >= 3 /\ skill[i - 1] \in RegExpQuantifiers /\ skill[i - 2] \in RegExpQuantifiers

\* the outcome of a call that threw, and of one that returned v
Thrown == [threw |-> TRUE]
Returned(v) == [threw |-> FALSE, value |-> v]

W_java == <<"j", "a", "v", "a">>
W_javascript == <<"j", "a", "v", "a", "s", "c", "r", "i", "p", "t">>
W_react == <<"r", "e", "a", "c", "t">>
W_React == <<"R", "e", "a", "c", "t">>
W_kubernetes == <<"k", "u", "b", "e", "r", "n", "e", "t", "e", "s">>
W_k8s == <<"k", "8", "s">>
W_cpp == <<"c", "+", "+">>
W_cpp11 == <<"c", "+", "+", "1", "1">>
W_built == <<"b", "u", "i", "l", "t">>
W_developed == <<"d", "e", "v", "e", "l", "o", "p", "e", "d">>
W_led == <<"l", "e", "d">>
W_managed == <<"m", "a", "n", "a", "g", "e", "d">>
W_years == <<"y", "e", "a", "r", "s">>
W_experience == <<"e", "x", "p", "e", "r", "i", "e", "n", "c", "e">>
W_general == <<"g", "e", "n", "e", "r", "a", "l">>

(***************************************************************************)
(* SkillMapper.js                                                          *)
(***************************************************************************)
\* the entries of SKILL_CATEGORIES and SKILL_ALIASES that the texts of the
\* model can mention, in the order of the source
SKILL_CATEGORIES ==
    <<[skill |-> W_javascript, category |-> "programming"],
      [skill |-> W_java, category |-> "programming"],
      [skill |-> W_cpp, category |-> "programming"],
      [skill |-> W_react, category |-> "frameworks"],
      [skill |-> W_kubernetes, category |-> "cloud"]>>

SKILL_ALIASES ==
    <<[alias |-> W_k8s, canonical |-> W_kubernetes]>>

\* findSkillContext: text.match(/[^.]*\bskill\b[^.]*\./gi)[0].trim(), or ''.
\* The skill is inserted unescaped, so building the pattern can throw.  For a
\* skill without "." the first match starts at the least s from which a run
\* of non-"." characters holding the whole word reaches a "." and ends there.
findSkillContext(str, skill) ==
    IF ~ skillPatternCompiles(skill) THEN Thrown
    ELSE LET firstDotFrom(s) ==
                 IF \E e \in s..Len(str) : str[e] = "."
                 THEN CHOOSE e \in s..Len(str) :
                          str[e] = "." /\ \A x \in s..(e - 1) : str[x] # "."
                 ELSE 0
             matchesFrom(s) ==
                 LET e == firstDotFrom(s)
                 IN e # 0 /\ \E k \in s..(e - Len(skill)) : WholeWordAt(str, skill, k)
         IN IF \E s \in 1..Len(str) : matchesFrom(s)
            THEN LET s == CHOOSE s \in 1..Len(str) :
                              matchesFrom(s) /\ \A x \in 1..(s - 1) : ~ matchesFrom(x)
                 IN Returned(trim(SubSeq(str, s, firstDotFrom(s))))
            ELSE Returned(<<>>)

\* context.slice(0, 100) + (context.length > 100 ? '...' : '')
evidenceOf(context) ==
    SubSeq(context, 1, Min2(Len(context), 100))
    \o (IF Len(context) > 100 THEN <<".", ".", ".">> ELSE <<>>)

\* extractedSkills.push({...}) with the context findSkillContext returned
pushSkill(found, skill, category, mentions, context) ==
    IF context.threw THEN Thrown
    ELSE Returned(Append(found, [skill |-> skill,
                                 category |-> category,
                                 mentions |-> mentions,
                                 context |-> context.value,
                                 evidence |-> evidenceOf(context.value)]))

\* the body of the forEach over the canonical skills, for one catalog entry
\* with `mentions` matches in the text
canonicalEntry(str, entry, found, mentions) ==
    IF mentions > 0 /\ ~ \E j \in 1..Len(found) : found[j].skill = toLowerCase(entry.skill)
    THEN pushSkill(found, entry.skill, entry.category, mentions,
                   findSkillContext(str, entry.skill))
    ELSE Returned(found)

\* the forEach over the canonical skills, from catalog entry i on; acc is
\* what the entries before i returned
RECURSIVE extractCanonical(_, _, _)
extractCanonical(str, i, acc) ==
    IF acc.threw \/ i > Len(SKILL_CATEGORIES) THEN acc
    ELSE extractCanonical(str, i + 1,
             canonicalEntry(str, SKILL_CATEGORIES[i], acc.value,
                            CountWholeWord(str, SKILL_CATEGORIES[i].skill)))

categoryOf(canonical) ==
    IF \E j \in 1..Len(SKILL_CATEGORIES) : toLowerCase(SKILL_CATEGORIES[j].skill) = canonical
    THEN SKILL_CATEGORIES[CHOOSE j \in 1..Len(SKILL_CATEGORIES) :
                              /\ toLowerCase(SKILL_CATEGORIES[j].skill) = canonical
                              /\ \A x \in 1..(j - 1) :
                                     toLowerCase(SKILL_CATEGORIES[x].skill) # canonical].category
    ELSE "tools"

\* the body of the forEach over the aliases, for one alias entry with
\* `mentions` matches in the text
aliasEntry(str, entry, found, mentions) ==
    IF (~ \E j \in 1..Len(found) : found[j].skill = entry.canonical) /\ mentions > 0
    THEN pushSkill(found, entry.canonical, categoryOf(entry.canonical), mentions,
                   findSkillContext(str, entry.alias))
    ELSE Returned(found)

\* the forEach over the aliases, from alias entry i on
RECURSIVE extractAliases(_, _, _)
extractAliases(str, i, acc) ==
    IF acc.threw \/ i > Len(SKILL_ALIASES) THEN acc
    ELSE extractAliases(str, i + 1,
             aliasEntry(str, SKILL_ALIASES[i], acc.value,
                        CountWholeWord(str, SKILL_ALIASES[i].alias)))

extractSkillsFromResume(str) ==
    extractAliases(str, 1, extractCanonical(str, 1, Returned(<<>>)))

calculateSkillConfidence_flat(skill) == 60

\* the mentions of the skill not counted
calculateSkillConfidence_noMentions(skill) ==
    50 + (IF Len(skill.context) > 50 THEN 10 ELSE 0)
       + (IF Len(skill.context) > 100 THEN 10 ELSE 0)

calculateSkillConfidence(skill) ==
    LET contextLower == toLowerCase(skill.context)
        b(cond, points) == IF cond THEN points ELSE 0
    IN Min2(50
            + Min2(skill.mentions * 10, 25)
            + b(Len(skill.context) > 50, 10)
            + b(Len(skill.context) > 100, 10)
            + b(includes(contextLower, W_built) \/ includes(contextLower, W_developed), 5)
            + b(includes(contextLower, W_led) \/ includes(contextLower, W_managed), 5)
            + b(includes(contextLower, W_years) \/ includes(contextLower, W_experience), 5),
            100)

parseJobRequirements(jd) ==
    [mustHave |-> [i \in 1..Len(jd.requiredSkills) |->
                      [skill |-> toLowerCase(jd.requiredSkills[i]),
                       importance |-> "required"]],
     niceToHave |-> [i \in 1..Len(jd.preferredSkills) |->
                      [skill |-> toLowerCase(jd.preferredSkills[i]),
                       importance |-> "preferred"]]]

\* resumeSkills.find(...) for a required skill: the index of the first match, 0 if none
findRequiredMatch(resumeSkills, req) ==
    LET hit(s) == \/ toLowerCase(s.skill) = toLowerCase(req.skill)
                  \/ includes(toLowerCase(s.skill), toLowerCase(req.skill))
                  \/ includes(toLowerCase(req.skill), toLowerCase(s.skill))
    IN IF \E j \in 1..Len(resumeSkills) : hit(resumeSkills[j])
       THEN CHOOSE j \in 1..Len(resumeSkills) :
                hit(resumeSkills[j]) /\ \A x \in 1..(j - 1) : ~ hit(resumeSkills[x])
       ELSE 0

\* resumeSkills.find(...) for a preferred skill
findPreferredMatch(resumeSkills, req) ==
    LET hit(s) == \/ toLowerCase(s.skill) = toLowerCase(req.skill)
                  \/ includes(toLowerCase(s.skill), toLowerCase(req.skill))
    IN IF \E j \in 1..Len(resumeSkills) : hit(resumeSkills[j])
       THEN CHOOSE j \in 1..Len(resumeSkills) :
                hit(resumeSkills[j]) /\ \A x \in 1..(j - 1) : ~ hit(resumeSkills[x])
       ELSE 0

\* the push of a matched requirement: strong from confidence 70 (required)
\* or 60 (preferred) on, weak below
placeMatch(req, match, confidence) ==
    LET entry == [skill |-> req.skill, importance |-> req.importance,
                  evidence |-> match.evidence,
                  confidence |-> confidence,
                  mentions |-> match.mentions]
    IN IF confidence >= (IF req.importance = "required" THEN 70 ELSE 60)
       THEN [list |-> "strong", entry |-> entry]
       ELSE [list |-> "weak", entry |-> entry]

\* if (match) {...} else {...}, j being the index of the match or 0
placeRequirement(resumeSkills, req, j) ==
    IF j = 0
    THEN IF req.importance = "required"
         THEN [list |-> "missing", entry |-> req]
         ELSE [list |-> "none", entry |-> req]
    ELSE placeMatch(req, resumeSkills[j], calculateSkillConfidence(resumeSkills[j]))

\* where the forEach over mustHave / niceToHave puts one requirement
classifyRequirement(resumeSkills, req) ==
    placeRequirement(resumeSkills, req,
                     IF req.importance = "required"
                     THEN findRequiredMatch(resumeSkills, req)
                     ELSE findPreferredMatch(resumeSkills, req))

skillMatchScore_floor(matchedRequired2, totalRequired) ==
    IF totalRequired > 0
    THEN (100 * matchedRequired2) \div (2 * totalRequired)
    ELSE 50

\* Math.round((matchedRequired / totalRequired) * 100), matchedRequired2 being
\* twice matchedRequired (strong count * 2 + weak count)
skillMatchScoreOf(matchedRequired2, totalRequired) ==
    IF totalRequired > 0
    THEN Round(100 * matchedRequired2, 2 * totalRequired)
    ELSE 50

\* the value mapSkillsToRequirements returns, from the resume skills, the
\* requirements (all: mustHave then niceToHave) and where each was placed
skillMappingOf(resumeSkills, requirements, all, placed) ==
    LET listOf(name) == LET sel == SelectSeq(placed, LAMBDA pl : pl.list = name)
                        IN [i \in 1..Len(sel) |-> sel[i].entry]
        isExtra(s) == ~ \E i \in 1..Len(all) : toLowerCase(all[i].skill) = toLowerCase(s.skill)
        extraSel == SelectSeq(resumeSkills, isExtra)
        isRequired(e) == e.importance = "required"
    IN [strong |-> listOf("strong"),
        weak |-> listOf("weak"),
        missing |-> listOf("missing"),
        extra |-> [i \in 1..Len(extraSel) |->
                      [skill |-> extraSel[i].skill, category |-> extraSel[i].category,
                       confidence |-> calculateSkillConfidence(extraSel[i])]],
        skillMatchScore |-> skillMatchScoreOf(
                                2 * Len(SelectSeq(listOf("strong"), isRequired))
                                + Len(SelectSeq(listOf("weak"), isRequired)),
                                Len(requirements.mustHave)),
        totalRequired |-> Len(requirements.mustHave),
        totalPreferred |-> Len(requirements.niceToHave),
        requirements |-> requirements]

\* the two forEach loops over the requirements
placeRequirements(resumeSkills, requirements, all) ==
    skillMappingOf(resumeSkills, requirements, all,
                   [i \in 1..Len(all) |-> classifyRequirement(resumeSkills, all[i])])

\* mapSkillsToRequirements after extractSkillsFromResume and
\* parseJobRequirements
mapExtractedSkills(extracted, requirements) ==
    IF extracted.threw THEN Thrown
    ELSE placeRequirements(extracted.value, requirements,
                           requirements.mustHave \o requirements.niceToHave)

mapSkillsToRequirements(str, jd) ==
    mapExtractedSkills(extractSkillsFromResume(str), parseJobRequirements(jd))

(***************************************************************************)
(* textAnalysis.js: analyzeConsistency                                     *)
(***************************************************************************)
RECURSIVE SumSeq(_)
SumSeq(q) == IF q = <<>> THEN 0 ELSE Head(q) + SumSeq(Tail(q))

SeqMap(Op(_), q) == [i \in 1..Len(q) |-> Op(q[i])]

Square(x) == x * x

\* fewer than two answers taken as fully consistent
analyzeConsistency_single(detailLevels) == IF Len(detailLevels) < 2 THEN 100 ELSE 75

\* analyzeConsistency(answers) on the specificity scores (detailLevels) of the
\* answers: 100 - min(2 * sqrt(variance), 50), rounded.  With n levels, sum S1
\* and sum of squares S2, variance = (n*S2 - S1^2) / n^2, so 2*sqrt(variance)
\* = 2*sqrt(V)/n with V = n*S2 - S1^2, and Math.round(100 - y) = 100 - k for
\* the least k with k >= y - 1/2, that is (2k+1)^2 * n^2 >= 16 * V.
analyzeConsistency(detailLevels) ==
    IF Len(detailLevels) < 2 THEN 50
    ELSE LET n == Len(detailLevels)
             S1 == SumSeq(detailLevels)
             S2 == SumSeq(SeqMap(Square, detailLevels))
             V == n * S2 - S1 * S1
         IN IF 4 * V >= 2500 * n * n THEN 50
            ELSE 100 - (CHOOSE k \in 0..50 :
                          /\ Square(2 * k + 1) * n * n >= 16 * V
                          /\ (k = 0 \/ Square(2 * k - 1) * n * n < 16 * V))

(***************************************************************************)
(* AuthenticityScorer.js: calculateOverallAuthenticity                     *)
(* A qa record carries what the function reads: question.priority,        *)
(* authenticity.score, the number of authenticity.redFlags, whether the    *)
(* answer text is non-empty and the specificity score of that text.        *)
(***************************************************************************)
\* weight = priority === 'high' ? 1.5 : priority === 'medium' ? 1.0 : 0.7, in tenths
priorityWeight10(priority) ==
    IF priority = "high" THEN 15 ELSE IF priority = "medium" THEN 10 ELSE 7

\* (authScore.score || 50): a falsy score, 0 included, reads as 50
scoreOrDefault(score) == IF score = 0 THEN 50 ELSE score

riskAssessment(finalScore) ==
    IF finalScore >= 75 THEN "low" ELSE IF finalScore >= 55 THEN "medium" ELSE "high"

\* the red-flag deduction without its floor of 20
overallAuthenticity_noFloor(qas, averageScore, consistencyScore, totalRedFlags) ==
    LET finalScore == Max2(Round(averageScore * consistencyScore, 100) - totalRedFlags * 3, 0)
    IN [score |-> finalScore,
        averageScore |-> averageScore,
        consistencyScore |-> consistencyScore,
        totalRedFlags |-> totalRedFlags,
        riskLevel |-> riskAssessment(finalScore),
        confidence |-> Min2(Len(qas) * 15, 95)]

\* the adjustment of the average by consistency and red flags, and the
\* value calculateOverallAuthenticity returns
overallAuthenticityOf(qas, averageScore, consistencyScore, totalRedFlags) ==
    LET finalScore == Max2(Round(averageScore * consistencyScore, 100) - totalRedFlags * 3, 20)
    IN [score |-> finalScore,
        averageScore |-> averageScore,
        consistencyScore |-> consistencyScore,
        totalRedFlags |-> totalRedFlags,
        riskLevel |-> riskAssessment(finalScore),
        confidence |-> Min2(Len(qas) * 15, 95)]

\* totalWeight > 0 ? Math.round(weightedSum / totalWeight) : 50
averageScoreOf(weightedSum, totalWeight) ==
    IF totalWeight > 0 THEN Round(weightedSum, totalWeight) ELSE 50

\* answers.length > 0 ? analyzeConsistency(answers) : 70
consistencyScoreOf(answered) ==
    LET detailOf(qa) == qa.specificity
    IN IF Len(answered) > 0 THEN analyzeConsistency(SeqMap(detailOf, answered)) ELSE 70

calculateOverallAuthenticity(qas) ==
    IF Len(qas) = 0
    THEN [score |-> 50, confidence |-> 0, assessment |-> "No data"]
    ELSE LET weighted(qa) == scoreOrDefault(qa.score) * priorityWeight10(qa.priority)
             weightOf(qa) == priorityWeight10(qa.priority)
             flagsOf(qa) == qa.redFlags
         IN overallAuthenticityOf(
                qas,
                averageScoreOf(SumSeq(SeqMap(weighted, qas)), SumSeq(SeqMap(weightOf, qas))),
                consistencyScoreOf(SelectSeq(qas, LAMBDA qa : qa.answerLength > 0)),
                SumSeq(SeqMap(flagsOf, qas)))

\* identifyFocusSkills(skillMapping): weak required, then missing, then the
\* first three strong required skills
identifyFocusSkills(mapping) ==
    LET isRequired(e) == e.importance = "required"
        weakReq == SelectSeq(mapping.weak, isRequired)
        strongReq == SelectSeq(mapping.strong, isRequired)
        strong3 == SubSeq(strongReq, 1, Min2(Len(strongReq), 3))
    IN [i \in 1..Len(weakReq) |-> [skill |-> weakReq[i].skill, priority |-> "high"]]
       \o [i \in 1..Len(mapping.missing) |->
               [skill |-> mapping.missing[i].skill, priority |-> "high"]]
       \o [i \in 1..Len(strong3) |-> [skill |-> strong3[i].skill, priority |-> "medium"]]

(***************************************************************************)
(* textAnalysis.js on the text of an answer.  A regular expression is a    *)
(* sequence of elements: a choice of literals, a run of characters of a    *)
(* class, or the assertion \b; it is run on the text as a set of positions.*)
(***************************************************************************)
\* the characters of a string literal, one per element
chars(str) == [i \in 1..Len(str) |-> SubSeq(str, i, i)]

\* \s, for the texts of the model
WhiteSpace == {" "}

SpacePlus == [kind |-> "many", chars |-> WhiteSpace, negated |-> FALSE, min |-> 1]
SpaceStar == [kind |-> "many", chars |-> WhiteSpace, negated |-> FALSE, min |-> 0]
DigitPlus == [kind |-> "many", chars |-> Digits, negated |-> FALSE, min |-> 1]
\* [,\d]*
CommaDigitStar == [kind |-> "many", chars |-> Digits \cup {","}, negated |-> FALSE, min |-> 0]
\* [^\s]+
NonSpacePlus == [kind |-> "many", chars |-> WhiteSpace, negated |-> TRUE, min |-> 1]
WordEdge == [kind |-> "edge"]
Lit(alts) == [kind |-> "lit", alts |-> alts]

\* the positions one element can end at when it starts at a position of P
RegexStep(text, el, P) ==
    IF el.kind = "lit"
    THEN UNION {{p + Len(a) : a \in {x \in el.alts : MatchAt(text, x, p)}} : p \in P}
    ELSE IF el.kind = "many"
    THEN UNION {{e \in (p + el.min)..(Len(text) + 1) :
                     \A x \in p..(e - 1) : (text[x] \in el.chars) # el.negated} : p \in P}
    ELSE {p \in P : WordBoundary(text, p)}

\* the positions the elements from the k-th on can end at
RECURSIVE RegexEnds(_, _, _, _)
RegexEnds(text, pattern, k, P) ==
    IF k > Len(pattern) \/ P = {} THEN P
    ELSE RegexEnds(text, pattern, k + 1, RegexStep(text, pattern[k], P))

\* RegExp.prototype.test
RegexTest(text, pattern) == RegexEnds(text, pattern, 1, 1..(Len(text) + 1)) # {}

\* patterns.some(p => p.test(text))
someTest(text, patterns) == \E i \in DOMAIN patterns : RegexTest(text, patterns[i])

\* where the match that starts at s ends, 0 when none starts there: the
\* first alternative that matches, taken as far as it goes
RECURSIVE matchEnd(_, _, _, _)
matchEnd(text, alternatives, a, s) ==
    IF a > Len(alternatives) THEN 0
    ELSE IF RegexEnds(text, alternatives[a], 1, {s}) # {}
    THEN CHOOSE e \in RegexEnds(text, alternatives[a], 1, {s}) :
             \A x \in RegexEnds(text, alternatives[a], 1, {s}) : x <= e
    ELSE matchEnd(text, alternatives, a + 1, s)

\* text.match(/.../g): the number of matches, found left to right without
\* overlap; ends[s] is where the match starting at s ends
RECURSIVE countMatchesFrom(_, _)
countMatchesFrom(ends, i) ==
    IF \A s \in i..Len(ends) : ends[s] = 0 THEN 0
    ELSE 1 + countMatchesFrom(
                 ends,
                 Max2(ends[CHOOSE s \in i..Len(ends) :
                               ends[s] # 0 /\ \A x \in i..(s - 1) : ends[x] = 0],
                      1 + (CHOOSE s \in i..Len(ends) :
                               ends[s] # 0 /\ \A x \in i..(s - 1) : ends[x] = 0)))

countMatches(text, alternatives) ==
    countMatchesFrom([s \in 1..Len(text) |-> matchEnd(text, alternatives, 1, s)], 1)

\* /\b(I|my|me|we|our|us|myself|ourselves)\b/gi
firstPersonPatterns ==
    <<chars("I"),
      chars("my"),
      chars("me"),
      chars("we"),
      chars("our"),
      chars("us"),
      chars("myself"),
      chars("ourselves")>>

\* countFirstPersonIndicators: a match is a whole word, so matches never overlap
countFirstPersonIndicators(text) ==
    Cardinality({i \in 1..Len(text) :
                     \E w \in DOMAIN firstPersonPatterns :
                         WholeWordAt(text, firstPersonPatterns[w], i)})

\* the four pattern lists of detectSTARMethod; an alternation of sequences is
\* written as one pattern per alternative
situationPatterns ==
    <<<<Lit({chars("when")}), SpacePlus, Lit({chars("i"), chars("we")}),
          SpacePlus, Lit({chars("was"), chars("were"), chars("worked"), chars("had")})>>,
      <<Lit({chars("at")}), SpacePlus, Lit({chars("my")}), SpacePlus, Lit({chars("previous"),
            chars("last"), chars("former")})>>,
      <<Lit({chars("on")}), SpacePlus, Lit({chars("a"), chars("the")}),
            SpacePlus, Lit({chars("project")})>>,
      <<Lit({chars("the")}), SpacePlus, Lit({chars("context"), chars("situation"),
            chars("scenario"), chars("background")}), SpacePlus, Lit({chars("was"),
            chars("is")})>>,
      <<Lit({chars("there")}), SpacePlus, Lit({chars("was")}), SpacePlus, Lit({chars("a"),
            chars("an")}), SpacePlus, Lit({chars("problem"), chars("issue"),
            chars("challenge")})>>,
      <<Lit({chars("we")}), SpacePlus, Lit({chars("had"), chars("were"), chars("needed")}),
            SpacePlus, Lit({chars("to")})>>>>

taskPatterns ==
    <<<<Lit({chars("my")}), SpacePlus, Lit({chars("role"), chars("responsibility"),
          chars("job"), chars("task")}), SpacePlus, Lit({chars("was"), chars("is")})>>,
      <<Lit({chars("i")}), SpacePlus, Lit({chars("was"), chars("am")}),
            SpacePlus, Lit({chars("responsible"), chars("tasked"), chars("assigned")})>>,
      <<Lit({chars("i")}), SpacePlus, Lit({chars("needed")}), SpacePlus, Lit({chars("to")})>>,
      <<Lit({chars("goal")}), SpacePlus, Lit({chars("was"), chars("is")}),
            SpacePlus, Lit({chars("to")})>>,
      <<Lit({chars("objective")}), SpacePlus, Lit({chars("was"), chars("is")})>>>>

actionPatterns ==
    <<<<Lit({chars("i")}), SpacePlus, Lit({chars("built"), chars("created"),
          chars("developed"), chars("implemented"), chars("wrote"), chars("designed"),
          chars("fixed"), chars("debugged")})>>,
      <<Lit({chars("i")}), SpacePlus, Lit({chars("decided"), chars("chose"), chars("selected"),
            chars("used"), chars("applied")})>>,
      <<Lit({chars("my")}), SpacePlus, Lit({chars("approach")}), SpacePlus, Lit({chars("was"),
            chars("is")})>>,
      <<Lit({chars("i")}), SpacePlus, Lit({chars("started"), chars("began")}),
            SpacePlus, Lit({chars("by")})>>,
      <<Lit({chars("first")}), Lit({chars(""), chars(",")}), SpacePlus, Lit({chars("i")}),
            SpacePlus>>,
      <<Lit({chars("then")}), SpacePlus, Lit({chars("i")}), SpacePlus>>,
      <<Lit({chars("step")}), SpacePlus, Lit({chars("by")}), SpacePlus, Lit({chars("step")})>>>>

resultPatterns ==
    <<<<Lit({chars("result")}), Lit({chars(""), chars("ed")}), SpacePlus, Lit({chars("was"),
          chars("in")})>>,
      <<Lit({chars("reduced"), chars("improved"), chars("increased"), chars("saved")}),
            SpacePlus, Lit({chars("by")})>>,
      <<Lit({chars("reduced"), chars("improved"), chars("increased"), chars("saved")}),
            SpacePlus, DigitPlus>>,
      <<DigitPlus, Lit({chars("%")}), SpaceStar, Lit({chars("improvement"), chars("reduction"),
            chars("increase"), chars("faster")})>>,
      <<Lit({chars("outcome")}), SpacePlus, Lit({chars("was"), chars("is")})>>,
      <<Lit({chars("we")}), SpacePlus, Lit({chars("achieved"), chars("delivered"),
            chars("shipped"), chars("launched")})>>,
      <<Lit({chars("this")}), SpacePlus, Lit({chars("led")}), SpacePlus, Lit({chars("to")})>>,
      <<Lit({chars("this")}), SpacePlus, Lit({chars("resulted")}),
            SpacePlus, Lit({chars("in")})>>,
      <<Lit({chars("this")}), SpacePlus, Lit({chars("caused")})>>,
      <<Lit({chars("in")}), SpacePlus, Lit({chars("the")}), SpacePlus, Lit({chars("end")})>>,
      <<Lit({chars("finally")})>>>>

\* detectSTARMethod: the components found, the score, componentCount and
\* isComplete
starOf(situation, task, action, result) ==
    [score |-> 25 * Cardinality({c \in {<<1, situation>>, <<2, task>>,
                                         <<3, action>>, <<4, result>>} : c[2]}),
     components |-> [situation |-> situation, task |-> task,
                     action |-> action, result |-> result],
     isComplete |-> Cardinality({c \in {<<1, situation>>, <<2, task>>,
                                         <<3, action>>, <<4, result>>} : c[2]}) >= 3,
     componentCount |-> Cardinality({c \in {<<1, situation>>, <<2, task>>,
                                             <<3, action>>, <<4, result>>} : c[2]})]

detectSTARMethod(text) ==
    starOf(someTest(toLowerCase(text), situationPatterns),
           someTest(toLowerCase(text), taskPatterns),
           someTest(toLowerCase(text), actionPatterns),
           someTest(toLowerCase(text), resultPatterns))

\* the four expressions of detectMetrics; an optional group is written as two
\* alternatives
percentagePattern ==
    <<<<DigitPlus, Lit({chars(".")}), DigitPlus, Lit({chars("%")})>>,
      <<DigitPlus, Lit({chars("%")})>>>>

timePattern ==
    <<<<DigitPlus, SpaceStar, Lit({chars("ms"), chars("millisecond"), chars("milliseconds"),
          chars("second"), chars("seconds"), chars("minute"), chars("minutes"), chars("hour"),
          chars("hours"), chars("day"), chars("days"), chars("week"), chars("weeks"),
          chars("month"), chars("months")})>>>>

countPattern ==
    <<<<DigitPlus, CommaDigitStar, SpaceStar, Lit({chars("user"), chars("users"),
          chars("customer"), chars("customers"), chars("request"), chars("requests"),
          chars("transaction"), chars("transactions"), chars("record"), chars("records"),
          chars("line"), chars("lines"), chars("file"), chars("files")})>>>>

moneyPattern ==
    <<<<Lit({chars("$")}), DigitPlus, CommaDigitStar, Lit({chars(""), chars("k"),
          chars("m")})>>,
      <<DigitPlus, CommaDigitStar, SpaceStar, Lit({chars("dollar"), chars("dollars"),
            chars("revenue")})>>>>

\* detectMetrics, from the number of matches of the four expressions
metricsOf(count) ==
    [hasMetrics |-> count > 0, count |-> count, score |-> Min2(count * 20, 100)]

detectMetrics(text) ==
    metricsOf(countMatches(text, percentagePattern) + countMatches(text, timePattern)
              + countMatches(text, countPattern) + countMatches(text, moneyPattern))

\* the technicalPatterns of calculateSpecificityScore
technicalPatterns ==
    <<<<Lit({chars("error:")}), SpaceStar, NonSpacePlus>>,
      <<Lit({chars("version")}), SpaceStar, DigitPlus, Lit({chars(".")}), DigitPlus>>,
      <<DigitPlus, SpaceStar, Lit({chars("ms"), chars("seconds"), chars("minutes")})>>,
      <<DigitPlus, Lit({chars("%")})>>,
      <<WordEdge, Lit({chars("bug"), chars("issue"), chars("ticket")}),
            SpaceStar, Lit({chars(""), chars("#")}), DigitPlus>>,
      <<Lit({chars("localhost:")}), DigitPlus>>,
      <<Lit({chars("http")}), Lit({chars(""), chars("s")}), Lit({chars("://")}), NonSpacePlus>>,
      <<Lit({chars(".")}), Lit({chars("js"), chars("py"), chars("java"), chars("ts"),
            chars("css"), chars("html")})>>>>

toolMentions ==
    <<chars("npm"),
      chars("pip"),
      chars("docker"),
      chars("git"),
      chars("webpack"),
      chars("vite"),
      chars("babel"),
      chars("eslint"),
      chars("postman"),
      chars("chrome devtools"),
      chars("vs code"),
      chars("intellij"),
      chars("terminal"),
      chars("console")>>

\* the number of strings of the list that the text includes
includedCount(textLower, phrases) ==
    Cardinality({i \in DOMAIN phrases : includes(textLower, phrases[i])})

\* calculateSpecificityScore: 0.4 of the STAR score, 0.3 of the metrics score
\* (both sums are whole numbers), 5 per technical pattern, 4 per tool, and
\* the two length bonuses
calculateSpecificityScore(text) ==
    Min2((detectSTARMethod(text).score * 4) \div 10
         + (detectMetrics(text).score * 3) \div 10
         + 5 * Cardinality({i \in DOMAIN technicalPatterns :
                                RegexTest(toLowerCase(text), technicalPatterns[i])})
         + 4 * includedCount(toLowerCase(text), toolMentions)
         + (IF Len(text) > 200 THEN 5 ELSE 0)
         + (IF Len(text) > 400 THEN 5 ELSE 0),
         100)

\* the two phrase lists of detectGenericPatterns
genericPhrases ==
    <<chars("in general"),
      chars("typically"),
      chars("usually"),
      chars("best practice"),
      chars("standard approach"),
      chars("most developers"),
      chars("it depends"),
      chars("is defined as"),
      chars("refers to"),
      chars("allows developers"),
      chars("is used for"),
      chars("is a technique"),
      chars("is a method"),
      chars("helps in"),
      chars("enables"),
      chars("facilitates")>>

polishedPhrases ==
    <<chars("seamlessly"),
      chars("flawlessly"),
      chars("perfectly"),
      chars("without any issues"),
      chars("worked as expected"),
      chars("no problems"),
      chars("everything went smoothly")>>

\* foundPatterns.length of detectGenericPatterns
foundPatternCount(text) ==
    includedCount(toLowerCase(text), genericPhrases)
    + includedCount(toLowerCase(text), polishedPhrases)

positiveIndicators ==
    <<chars("mistake"),
      chars("error"),
      chars("wrong"),
      chars("confused"),
      chars("struggle"),
      chars("difficult"),
      chars("challenge"),
      chars("learned"),
      chars("realized"),
      chars("should have"),
      chars("could have"),
      chars("in hindsight"),
      chars("looking back"),
      chars("at first"),
      chars("initially"),
      chars("didn't know"),
      chars("wasn't aware"),
      chars("took time"),
      chars("failed"),
      chars("broke"),
      chars("crashed")>>

calculateImperfectionScore(text) ==
    Min2(12 * includedCount(toLowerCase(text), positiveIndicators), 100)

\* the perfectIndicators of analyzeNeedForFollowUp
perfectIndicators ==
    <<chars("seamlessly"),
      chars("flawlessly"),
      chars("perfectly"),
      chars("without any issues"),
      chars("everything worked"),
      chars("no problems"),
      chars("exactly as planned")>>

\* what the text functions measure on the text of an answer
measuredAnswer(text) ==
    [length |-> Len(text),
     firstPersonCount |-> countFirstPersonIndicators(text),
     genericCount |-> foundPatternCount(text),
     specificityScore |-> calculateSpecificityScore(text),
     imperfectionScore |-> calculateImperfectionScore(text),
     hasPerfectLanguage |-> includedCount(toLowerCase(text), perfectIndicators) > 0]

(***************************************************************************)
(* An answer is described by what the text-analysis functions measure on   *)
(* its text: length, countFirstPersonIndicators, the number of phrases     *)
(* detectGenericPatterns finds, calculateSpecificityScore,                 *)
(* calculateImperfectionScore, the perfectIndicators and failure           *)
(* indicators tests, the number of identifyRedFlags entries and whether    *)
(* extractKeyTopics finds a topic, the points calculateDepthScore gives    *)
(* and the score calculateCommunicationScore gives.                        *)
(***************************************************************************)
\* '[No response provided]', the answer handleTimeUp submits
NoResponseAnswer ==
    [text |-> "[No response provided]", length |-> 22, firstPersonCount |-> 0,
     genericCount |-> 0, specificityScore |-> 0, imperfectionScore |-> 0,
     hasPerfectLanguage |-> FALSE, hasFailureIndicators |-> FALSE,
     redFlags |-> 0, hasKeyTopics |-> FALSE, depthPoints |-> 0, commScore |-> 50]

DetailedAnswer ==
    [text |-> "detailed", length |-> 320, firstPersonCount |-> 6,
     genericCount |-> 0, specificityScore |-> 45, imperfectionScore |-> 24,
     hasPerfectLanguage |-> FALSE, hasFailureIndicators |-> TRUE,
     redFlags |-> 0, hasKeyTopics |-> TRUE, depthPoints |-> 70, commScore |-> 100]

GenericAnswer ==
    [text |-> "generic", length |-> 160, firstPersonCount |-> 0,
     genericCount |-> 3, specificityScore |-> 10, imperfectionScore |-> 0,
     hasPerfectLanguage |-> FALSE, hasFailureIndicators |-> FALSE,
     redFlags |-> 3, hasKeyTopics |-> FALSE, depthPoints |-> 15, commScore |-> 90]

\* detectGenericPatterns with isGeneric taken from 3 phrases on
detectGenericPatterns_strict(answer) ==
    [isGeneric |-> answer.genericCount >= 3,
     genericScore |-> Min2(answer.genericCount * 15, 100)]

\* detectGenericPatterns
detectGenericPatterns(answer) ==
    [isGeneric |-> answer.genericCount >= 2,
     genericScore |-> Min2(answer.genericCount * 15, 100)]

\* calculateAuthenticityScore without the neutral depthConsistency term
calculateAuthenticityScore_noNeutral(answer) ==
    Min2(Max2(Round(25 * Min2(answer.firstPersonCount * 10, 100)
                    + 25 * answer.specificityScore
                    + 20 * answer.imperfectionScore
                    + 20 * (100 - detectGenericPatterns(answer).genericScore), 100), 0), 100)

\* calculateAuthenticityScore(text).overall
calculateAuthenticityScore(answer) ==
    LET personalContextScore == Min2(answer.firstPersonCount * 10, 100)
        naturalLanguageScore == 100 - detectGenericPatterns(answer).genericScore
        overallScore == Round(25 * personalContextScore
                              + 25 * answer.specificityScore
                              + 20 * answer.imperfectionScore
                              + 20 * naturalLanguageScore
                              + 10 * 50, 100)
    IN Min2(Max2(overallScore, 0), 100)

\* calculateAuthenticityScore(text).breakdown
authenticityBreakdown(answer) ==
    [personalContext |-> Min2(answer.firstPersonCount * 10, 100),
     specificDetails |-> answer.specificityScore,
     imperfectNarrative |-> answer.imperfectionScore,
     naturalLanguage |-> 100 - detectGenericPatterns(answer).genericScore]

\* scoreAnswerAuthenticity(answer, question): countSkillMentions builds
\* new RegExp(`\\b${skill}\\b`, 'gi') from the question's skill, unescaped.
\* The flags of the result are display data and are left out.
scoreAnswerAuthenticity(answer, question) ==
    IF ~ skillPatternCompiles(question.skill) THEN Thrown
    ELSE LET typeMultiplier10 ==
                 IF question.type = "failure" /\ ~ answer.hasFailureIndicators
                 THEN 8 ELSE 10
         IN [score |-> Round(calculateAuthenticityScore(answer) * typeMultiplier10, 10),
             redFlags |-> answer.redFlags]

(***************************************************************************)
(* FollowUpEngine (src/unnamed/part_003)                                   *)
(***************************************************************************)
\* FOLLOWUP_TEMPLATES: a template string is named by its bucket and its
\* position in the bucket
FOLLOWUP_TEMPLATES ==
    [specificity |-> [i \in 1..4 |-> <<"specificity", i>>],
     depth |-> [i \in 1..4 |-> <<"depth", i>>],
     consistency |-> [i \in 1..3 |-> <<"consistency", i>>],
     contextual |-> [i \in 1..4 |-> <<"contextual", i>>]]

\* the four skill-parameterized fallback strings of generateFollowUpQuestion
fallbacks == [i \in 1..4 |-> <<"fallback", i>>]

\* Math.random() takes the values 0, 1/MaxDraw, ..., (MaxDraw-1)/MaxDraw
MaxDraw == 2
RandomDraws == 0..(MaxDraw - 1)

\* pool[Math.floor(Math.random() * pool.length)]
randomElement(pool, random) == pool[((random * Len(pool)) \div MaxDraw) + 1]

\* null, where a template is expected
NoTemplate == <<"none", 0>>

\* getUnusedTemplate drawing from all templates of the bucket
getUnusedTemplate_any(templates, used, random) == randomElement(templates, random)

\* getUnusedTemplate(templates) with the module-level set usedTemplates = used:
\* the template selected, or NoTemplate
getUnusedTemplate(templates, used, random) ==
    LET available == SelectSeq(templates, LAMBDA t : t \notin used)
    IN IF Len(available) = 0 THEN NoTemplate ELSE randomElement(available, random)

\* analyzeNeedForFollowUp with the perfect-phrase check applied only when
\* no trigger of the if/else chain matched
analyzeNeedForFollowUp_noOverride(answer) ==
    IF detectGenericPatterns(answer).isGeneric /\ detectGenericPatterns(answer).genericScore > 30
    THEN [needsFollowUp |-> TRUE, reason |-> "Answer contains generic patterns",
          followUpType |-> "specificity", confidence |-> 85]
    ELSE IF answer.specificityScore < 30
    THEN [needsFollowUp |-> TRUE, reason |-> "Answer lacks specific details",
          followUpType |-> "specificity", confidence |-> 80]
    ELSE IF answer.firstPersonCount < 2 /\ answer.length > 100
    THEN [needsFollowUp |-> TRUE, reason |-> "Answer lacks personal context",
          followUpType |-> "depth", confidence |-> 70]
    ELSE IF answer.length < 75
    THEN [needsFollowUp |-> TRUE, reason |-> "Answer is too brief",
          followUpType |-> "depth", confidence |-> 75]
    ELSE IF answer.hasPerfectLanguage
    THEN [needsFollowUp |-> TRUE, reason |-> "Answer is suspiciously perfect",
          followUpType |-> "consistency", confidence |-> 90]
    ELSE [needsFollowUp |-> FALSE, reason |-> "", followUpType |-> "", confidence |-> 0]

\* analyzeNeedForFollowUp with the length trigger tried before the
\* specificity trigger
analyzeNeedForFollowUp_briefFirst(answer) ==
    IF answer.hasPerfectLanguage
    THEN [needsFollowUp |-> TRUE, reason |-> "Answer is suspiciously perfect",
          followUpType |-> "consistency", confidence |-> 90]
    ELSE IF detectGenericPatterns(answer).isGeneric /\ detectGenericPatterns(answer).genericScore > 30
    THEN [needsFollowUp |-> TRUE, reason |-> "Answer contains generic patterns",
          followUpType |-> "specificity", confidence |-> 85]
    ELSE IF answer.length < 75
    THEN [needsFollowUp |-> TRUE, reason |-> "Answer is too brief",
          followUpType |-> "depth", confidence |-> 75]
    ELSE IF answer.specificityScore < 30
    THEN [needsFollowUp |-> TRUE, reason |-> "Answer lacks specific details",
          followUpType |-> "specificity", confidence |-> 80]
    ELSE IF answer.firstPersonCount < 2 /\ answer.length > 100
    THEN [needsFollowUp |-> TRUE, reason |-> "Answer lacks personal context",
          followUpType |-> "depth", confidence |-> 70]
    ELSE [needsFollowUp |-> FALSE, reason |-> "", followUpType |-> "", confidence |-> 0]

analyzeNeedForFollowUp(answer) ==
    LET generic == detectGenericPatterns(answer)
        none == [needsFollowUp |-> FALSE, reason |-> "", followUpType |-> "", confidence |-> 0]
        trigger ==
            IF generic.isGeneric /\ generic.genericScore > 30
            THEN [needsFollowUp |-> TRUE, reason |-> "Answer contains generic patterns",
                  followUpType |-> "specificity", confidence |-> 85]
            ELSE IF answer.specificityScore < 30
            THEN [needsFollowUp |-> TRUE, reason |-> "Answer lacks specific details",
                  followUpType |-> "specificity", confidence |-> 80]
            ELSE IF answer.firstPersonCount < 2 /\ answer.length > 100
            THEN [needsFollowUp |-> TRUE, reason |-> "Answer lacks personal context",
                  followUpType |-> "depth", confidence |-> 70]
            ELSE IF answer.length < 75
            THEN [needsFollowUp |-> TRUE, reason |-> "Answer is too brief",
                  followUpType |-> "depth", confidence |-> 75]
            ELSE none
    IN IF answer.hasPerfectLanguage
       THEN [needsFollowUp |-> TRUE, reason |-> "Answer is suspiciously perfect",
             followUpType |-> "consistency", confidence |-> 90]
       ELSE trigger

\* generateFollowUpQuestion(analysis, originalQuestion, answer): the follow-up
\* question and the value usedTemplates has afterwards.  Only one of the
\* template draws calls Math.random().
followUpFrom(analysis, originalQuestion, used, random, typed) ==
    LET selected == IF typed # NoTemplate THEN typed ELSE randomElement(fallbacks, random)
    IN [question |-> [id |-> originalQuestion.id \o "-followup",
                      type |-> "followup",
                      parentQuestionId |-> originalQuestion.id,
                      text |-> selected,
                      skill |-> originalQuestion.skill,
                      followUpType |-> analysis.followUpType],
        usedTemplates |-> IF typed # NoTemplate THEN used \cup {selected} ELSE used]

\* the template after the switch on analysis.followUpType, contextual being
\* the template the key-topic branch selected
typedTemplate(analysis, used, random, contextual) ==
    IF contextual # NoTemplate THEN contextual
    ELSE IF analysis.followUpType \in {"specificity", "depth", "consistency"}
    THEN getUnusedTemplate(FOLLOWUP_TEMPLATES[analysis.followUpType], used, random)
    ELSE NoTemplate

generateFollowUpQuestion(analysis, originalQuestion, answer, used, random) ==
    followUpFrom(analysis, originalQuestion, used, random,
                 typedTemplate(analysis, used, random,
                               IF answer.hasKeyTopics
                               THEN getUnusedTemplate(FOLLOWUP_TEMPLATES.contextual, used, random)
                               ELSE NoTemplate))

getMaxFollowUps_two(question) == 2

getMaxFollowUps(question) ==
    CASE question.priority = "high" -> 2
      [] question.priority = "medium" -> 1
      [] OTHER -> 1

(***************************************************************************)
(* QuestionGenerator.js.  A question is its id, skill, type and priority;  *)
(* the text is left out: every QUESTION_TEMPLATES entry contains {skill},  *)
(* so questions on different skills have different texts and the           *)
(* usedQuestionTexts test never rejects a question of the inputs below,    *)
(* whose skills are all different.                                         *)
(***************************************************************************)
\* GENERIC_QUESTIONS, by type
GENERIC_QUESTIONS ==
    <<"experience", "failure", "depth", "failure",
      "experience", "depth", "collaboration", "collaboration">>

\* Math.ceil(questionCount * tenths / 10)
ceilTenths(questionCount, tenths) == (questionCount * tenths + 9) \div 10

distributionOf(questionCount) ==
    [experience |-> ceilTenths(questionCount, 4),
     depth |-> ceilTenths(questionCount, 3),
     failure |-> ceilTenths(questionCount, 2),
     collaboration |-> questionCount - ceilTenths(questionCount, 4)
                       - ceilTenths(questionCount, 3) - ceilTenths(questionCount, 2)]

getBalancedType(qs, distribution) ==
    LET count(type) == Len(SelectSeq(qs, LAMBDA q : q.type = type))
    IN IF count("experience") < distribution.experience THEN "experience"
       ELSE IF count("depth") < distribution.depth THEN "depth"
       ELSE IF count("failure") < distribution.failure THEN "failure"
       ELSE IF count("collaboration") < distribution.collaboration THEN "collaboration"
       ELSE "experience"

questionId(qs) == "q-" \o ToString(Len(qs) + 1)

RECURSIVE focusQuestions(_, _, _)
\* focusSkills.forEach: one question per focus skill not yet asked about
focusQuestions(focusSkills, questionCount, qs) ==
    IF focusSkills = <<>> THEN qs
    ELSE LET focus == Head(focusSkills)
             skip == \/ Len(qs) >= questionCount
                     \/ \E i \in DOMAIN qs : qs[i].skill = focus.skill
             q == [id |-> questionId(qs), skill |-> focus.skill,
                   type |-> IF focus.priority = "high" THEN "experience" ELSE "depth",
                   priority |-> focus.priority]
         IN focusQuestions(Tail(focusSkills), questionCount,
                           IF skip THEN qs ELSE Append(qs, q))

RECURSIVE validationQuestions(_, _, _)
\* strong required skills left over: a question of the type still under target
validationQuestions(skills, questionCount, qs) ==
    IF skills = <<>> THEN qs
    ELSE LET q == [id |-> questionId(qs), skill |-> Head(skills).skill,
                   type |-> getBalancedType(qs, distributionOf(questionCount)),
                   priority |-> "medium"]
         IN validationQuestions(Tail(skills), questionCount,
                                IF Len(qs) >= questionCount THEN qs ELSE Append(qs, q))

RECURSIVE failureQuestions(_, _, _)
\* failure questions on the remaining strong and weak skills
failureQuestions(skills, questionCount, qs) ==
    IF skills = <<>> THEN qs
    ELSE LET q == [id |-> questionId(qs), skill |-> Head(skills).skill,
                   type |-> "failure", priority |-> "low"]
         IN failureQuestions(Tail(skills), questionCount,
                             IF Len(qs) >= questionCount THEN qs ELSE Append(qs, q))

RECURSIVE genericQuestions(_, _, _)
\* the fallback: GENERIC_QUESTIONS in shuffled order
genericQuestions(shuffled, questionCount, qs) ==
    IF shuffled = <<>> THEN qs
    ELSE LET q == [id |-> questionId(qs), skill |-> W_general,
                   type |-> GENERIC_QUESTIONS[Head(shuffled)], priority |-> "medium"]
         IN genericQuestions(Tail(shuffled), questionCount,
                             IF Len(qs) >= questionCount THEN qs ELSE Append(qs, q))

sortByPriority(qs) ==
    SelectSeq(qs, LAMBDA q : q.priority = "high")
    \o SelectSeq(qs, LAMBDA q : q.priority = "medium")
    \o SelectSeq(qs, LAMBDA q : q.priority = "low")

\* questions.some(q => q.skill === s.skill)
askedAbout(qs, e) == \E i \in DOMAIN qs : qs[i].skill = e.skill

\* the final sort without the generic fallback
withGenericQuestions_skipped(stage3, questionCount, shuffled) ==
    sortByPriority(stage3)

\* the generic fallback and the final sort, after the first three stages
withGenericQuestions(stage3, questionCount, shuffled) ==
    sortByPriority(IF Len(stage3) < questionCount
                   THEN genericQuestions(shuffled, questionCount, stage3)
                   ELSE stage3)

\* the failure stage and what follows it, after the first two stages
withFailureQuestions(mapping, stage2, questionCount, shuffled) ==
    LET rest == SelectSeq(mapping.strong \o mapping.weak, LAMBDA e : ~ askedAbout(stage2, e))
    IN withGenericQuestions(
           IF Len(stage2) < questionCount
           THEN failureQuestions(
                    SubSeq(rest, 1, Min2(Len(rest), questionCount - Len(stage2))),
                    questionCount, stage2)
           ELSE stage2,
           questionCount, shuffled)

\* the validation stage and what follows it, after the focus stage
withValidationQuestions(mapping, stage1, questionCount, shuffled) ==
    withFailureQuestions(
        mapping,
        validationQuestions(
            SelectSeq(mapping.strong,
                      LAMBDA e : e.importance = "required" /\ ~ askedAbout(stage1, e)),
            questionCount, stage1),
        questionCount, shuffled)

\* generateInterviewQuestions(skillMapping, focusSkills, questionCount);
\* shuffled is the order [...GENERIC_QUESTIONS].sort(() => Math.random() - 0.5)
\* produced, as positions in GENERIC_QUESTIONS
generateInterviewQuestions(mapping, focusSkills, questionCount, shuffled) ==
    withValidationQuestions(mapping, focusQuestions(focusSkills, questionCount, <<>>),
                            questionCount, shuffled)

generateOpeningQuestion ==
    [id |-> "q-opening", skill |-> W_general, type |-> "opening", priority |-> "high"]

generateClosingQuestion ==
    [id |-> "q-closing", skill |-> W_general, type |-> "closing", priority |-> "low"]

(***************************************************************************)
(* The evaluation handleInterviewComplete runs on the answer list          *)
(***************************************************************************)
\* the answer whose text is given
AnswerOf(text) == CHOOSE a \in {NoResponseAnswer, DetailedAnswer, GenericAnswer} : a.text = text

\* what calculateOverallAuthenticity reads of one qaPair
qaRecord(qa) ==
    [priority |-> qa.question.priority,
     score |-> qa.authenticity.score,
     redFlags |-> qa.authenticity.redFlags,
     answerLength |-> AnswerOf(qa.answer).length,
     specificity |-> AnswerOf(qa.answer).specificityScore]

calculateDepthScore(qas) ==
    IF Len(qas) = 0 THEN 50
    ELSE LET depthOf(qa) == Min2(AnswerOf(qa.answer).depthPoints, 100)
         IN Round(SumSeq(SeqMap(depthOf, qas)), Len(qas))

calculateCommunicationScore(qas) ==
    IF Len(qas) = 0 THEN 50
    ELSE LET commOf(qa) == Min2(AnswerOf(qa.answer).commScore, 100)
         IN Round(SumSeq(SeqMap(commOf, qas)), Len(qas))

\* generateAuthenticityReport: the summary score and consistency score the
\* metrics are read from
generateAuthenticityReport(overallAuth, qas) ==
    IF Len(qas) = 0
    THEN [summary |-> [score |-> 50, riskLevel |-> "medium"],
          details |-> [totalQuestions |-> 0, consistencyScore |-> 70]]
    ELSE [summary |-> [score |-> IF overallAuth.score = 0 THEN 50 ELSE overallAuth.score,
                       riskLevel |-> overallAuth.riskLevel],
          details |-> [totalQuestions |-> Len(qas),
                       consistencyScore |-> IF overallAuth.consistencyScore = 0 THEN 70
                                            ELSE overallAuth.consistencyScore]]

\* the metrics object of calculateEvaluationMetrics, from its five values
evaluationMetricsOf(skillMatch, depth, authenticityReport, communication) ==
    [skillMatch |-> skillMatch,
     depth |-> depth,
     authenticity |-> authenticityReport.summary.score,
     communication |-> communication,
     consistency |-> authenticityReport.details.consistencyScore]

calculateEvaluationMetrics(mapping, authenticityReport, qas) ==
    evaluationMetricsOf(mapping.skillMatchScore, calculateDepthScore(qas),
                        authenticityReport, calculateCommunicationScore(qas))

\* what the reports keep of the decision result
decisionReport(decision) ==
    [decision |-> decision.decision, overallScore |-> decision.overallScore,
     metrics |-> decision.metrics]

\* lines 198-217 of handleInterviewComplete: the reports it builds, reduced
\* to the decision, the score and the metrics behind them.  Each const of
\* the handler is bound to its value once, as the code computes it.
evaluateInterview(qas, mapping) ==
    CHOOSE recReport \in
        {decisionReport(makeDecision(evaluated)) :
            evaluated \in {calculateEvaluationMetrics(mapping, authReport, qas) :
                authReport \in {generateAuthenticityReport(overallAuth, qas) :
                    overallAuth \in {calculateOverallAuthenticity(SeqMap(qaRecord, qas))}}}} : TRUE

(***************************************************************************)
(* Inputs and bounds                                                       *)
(***************************************************************************)
MaxAnswers == 2

Priorities == {"high", "medium", "low"}
ScoreLevels == {0, 30, 65, 100}
RedFlagCounts == {0, 3}
SpecificityLevels == {0, 20, 47, 100}

\* a record whose answer is the empty string
EmptyAnswerRecord ==
    [priority |-> "low", score |-> 100, redFlags |-> 0, answerLength |-> 0, specificity |-> 0]

QaInputs ==
    [priority : Priorities, score : ScoreLevels, redFlags : RedFlagCounts,
     answerLength : {22}, specificity : SpecificityLevels]
    \cup {EmptyAnswerRecord}

\* the skill match and the depth and communication scores of a session at
\* their highest and at a middling level
SessionQualities ==
    {[skillMatch |-> 100, depth |-> 90, communication |-> 100],
     [skillMatch |-> 50, depth |-> 45, communication |-> 60]}

\* metric values the decision engine is exercised on: every threshold, its
\* two neighbours and the ends of the range
KeyScores == {0, 20, 34, 35, 39, 40, 49, 50, 64, 65, 69, 70, 80, 100}
OtherScores == {0, 45, 60, 70, 100}

MetricsInputs ==
    [skillMatch : KeyScores, depth : OtherScores, authenticity : KeyScores,
     communication : OtherScores, consistency : OtherScores]

MaxPieces == 3
MaxRequired == 2
MaxPreferred == 1

FillerLength == 51

\* the pieces a resume text is typed from; the filler is one long word
ResumePieces ==
    {W_javascript \o <<" ">>, W_React \o <<" ">>,
     W_k8s \o <<" ">>, W_cpp11 \o <<" ">>, <<".", " ">>,
     [i \in 1..FillerLength |-> "x"] \o <<" ">>}

\* a resume text pasted as a whole: one sentence without a closing "."
PastedResume ==
    chars("I built a React dashboard that reduced load time by 40% for 10,000 users")

RequiredNames == {W_react, W_java, W_cpp, W_k8s}
PreferredNames == {W_react}

AnswerProfiles == {NoResponseAnswer, DetailedAnswer, GenericAnswer}

MaxTextPieces == 2

\* the pieces an answer text is typed from
AnswerPieces ==
    {chars("It depends on the situation, and typically "),
     chars("the standard approach is best practice"),
     chars("in general it usually helps in what enables and facilitates "),
     chars("on a project the goal was"),
     chars(" to finally ship the code"),
     chars("it all worked seamlessly "),
     chars("the plain setup was fine "),
     chars("load time fell by 40% ok "),
     chars("I built my own parser ok "),
     chars("on a project the goal was to finally ship the code, so I built my own parser for it"),
     chars("on a project the goal was to finally ship the code and the whole team was glad about that outcome later")}

MaxQuestionCount == 9

\* the resume texts, required skills and preferred skills question
\* generation is run on
QuestionResumes ==
    {<<>>,
     W_React \o <<" ">>,
     PastedResume \o <<".", " ">>,
     W_javascript \o <<" ">> \o PastedResume \o <<".", " ">> \o W_k8s \o <<" ">>}

QuestionRequired ==
    {<<>>} \cup {<<a>> : a \in RequiredNames}
    \cup {<<a, b>> : a \in RequiredNames, b \in RequiredNames}

\* the orders [...GENERIC_QUESTIONS].sort(() => Math.random() - 0.5) is
\* drawn from, as positions in GENERIC_QUESTIONS
FullShuffles ==
    {<<1, 2, 3, 4, 5, 6, 7, 8>>,
     <<8, 7, 6, 5, 4, 3, 2, 1>>,
     <<3, 7, 1, 5, 2, 8, 4, 6>>}

MaxTabs == 2
Tabs == 1..MaxTabs

\* the screening codes applicants were given (handleCodeChange keeps the
\* code field in upper case) and the emails they type
ScreeningCodes == {chars("CREDA-AB12"), chars("CREDA-XY34")}
TypedEmails == {chars("ann@x.io"), chars("Ann@X.io"), chars("bob@x.io")}

\* a tab showing the details step of CodeEntry, code validated
FreshTab == [step |-> "details", code |-> <<>>, email |-> <<>>, screeningId |-> 0]

MaxFollowUpCalls == 9

(***************************************************************************)
(* Specifications                                                          *)
(***************************************************************************)
IdleDecision ==
    /\ metrics = [skillMatch |-> 0, depth |-> 0, authenticity |-> 0,
                  communication |-> 0, consistency |-> 0]
    /\ decisionResult = NoResult
    /\ earlierDecision = NoResult

IdleAuth ==
    /\ qaInput = <<>>
    /\ authResult = NoResult

IdleSkill ==
    /\ resumeText = <<>>
    /\ resumePieces = 0
    /\ jobDescription = [requiredSkills |-> <<>>, preferredSkills |-> <<>>]
    /\ mapResult = NoResult
    /\ scoreResult = NoResult

IdleFollowUps ==
    followUpCall = [calls |-> 0, used |-> {}, selected |-> {}, last |-> NoResult]

IdleCodes ==
    /\ screenings = <<>>
    /\ tabs = [t \in Tabs |-> FreshTab]

IdleQuestions ==
    /\ questionInput = NoResult
    /\ generated = NoResult

IdleText ==
    /\ answerText = <<>>
    /\ answerPieces = 0
    /\ textResult = NoResult

InitInterview ==
    /\ phase = "role_select"
    /\ skillMapping = NoResult
    /\ questions = <<>>
    /\ screeningId = 0
    /\ recruiterReport = NoResult
    /\ usedTemplates = {}
    /\ database = <<>>
    /\ completeRuns = <<>>
    /\ currentQuestionIndex = 0
    /\ isTyping = FALSE
    /\ interviewComplete = FALSE
    /\ qaPairs = <<>>
    /\ followUpCount = [id \in {} |-> 0]
    /\ pendingAnswer = NoResult
    /\ completionTimer = NoResult
    /\ session = 0
    /\ submitted = <<>>
    /\ onCompleteCalls = <<>>
    /\ followUps = <<>>
    /\ answers = 0

IdleInterview ==
    /\ InitInterview
    /\ aiAvailable = FALSE

\* ---- makeDecision on its own ----
InitDecision ==
    /\ metrics \in MetricsInputs
    /\ decisionResult = NoResult
    /\ earlierDecision = NoResult
    /\ IdleAuth
    /\ IdleSkill
    /\ IdleText
    /\ IdleQuestions
    /\ IdleCodes
    /\ IdleFollowUps
    /\ IdleInterview

\* a caller evaluates makeDecision(metrics, ...)
Decide ==
    /\ decisionResult = NoResult
    /\ decisionResult' = makeDecision(metrics)
    /\ UNCHANGED <<metrics, earlierDecision>>

\* the caller evaluates makeDecision once more with one metric higher and
\* the other four metrics as they were
DecideAgain ==
    /\ decisionResult # NoResult
    /\ earlierDecision = NoResult
    /\ \E metric \in DOMAIN metrics, higher \in KeyScores \cup OtherScores :
           /\ higher > metrics[metric]
           /\ metrics' = [metrics EXCEPT ![metric] = higher]
           /\ decisionResult' = makeDecision([metrics EXCEPT ![metric] = higher])
    /\ earlierDecision' = [metrics |-> metrics, result |-> decisionResult]

NextDecision ==
    \/ Decide /\ UNCHANGED <<authVars, skillVars, interviewVars, textVars, questionVars, codeVars, followUpVars>>
    \/ DecideAgain /\ UNCHANGED <<authVars, skillVars, interviewVars, textVars, questionVars, codeVars, followUpVars>>

SpecDecision == InitDecision /\ [][NextDecision]_vars

\* ---- calculateOverallAuthenticity on its own ----
InitAuth ==
    /\ IdleAuth
    /\ IdleDecision
    /\ IdleSkill
    /\ IdleText
    /\ IdleQuestions
    /\ IdleCodes
    /\ IdleFollowUps
    /\ IdleInterview

\* the caller appends one answer record to the list it will pass
AddAnswerRecord ==
    /\ authResult = NoResult
    /\ Len(qaInput) < MaxAnswers
    /\ \E qa \in QaInputs : qaInput' = Append(qaInput, qa)
    /\ UNCHANGED authResult

\* a caller evaluates calculateOverallAuthenticity(qaInput)
ComputeAuthenticity ==
    /\ authResult = NoResult
    /\ authResult' = calculateOverallAuthenticity(qaInput)
    /\ UNCHANGED qaInput

\* handleInterviewComplete goes on from overallAuth to the report, the
\* metrics and the decision
EvaluateSession ==
    /\ authResult # NoResult
    /\ decisionResult = NoResult
    /\ \E quality \in SessionQualities :
       \E authReport \in {generateAuthenticityReport(authResult, qaInput)} :
       \E evaluated \in {evaluationMetricsOf(quality.skillMatch, quality.depth, authReport,
                                             quality.communication)} :
           /\ metrics' = evaluated
           /\ decisionResult' = makeDecision(evaluated)
    /\ UNCHANGED <<qaInput, authResult, earlierDecision>>

NextAuth ==
    \/ AddAnswerRecord /\ UNCHANGED <<decisionVars, skillVars, interviewVars, textVars, questionVars, codeVars, followUpVars>>
    \/ ComputeAuthenticity /\ UNCHANGED <<decisionVars, skillVars, interviewVars, textVars, questionVars, codeVars, followUpVars>>
    \/ EvaluateSession /\ UNCHANGED <<skillVars, interviewVars, textVars, questionVars, codeVars, followUpVars>>

SpecAuth == InitAuth /\ [][NextAuth]_vars

\* ---- the skill mapper and the per-answer scorer on their own ----
InitSkill ==
    /\ IdleSkill
    /\ IdleDecision
    /\ IdleAuth
    /\ IdleText
    /\ IdleQuestions
    /\ IdleCodes
    /\ IdleFollowUps
    /\ IdleInterview

\* the candidate's resume text grows by one piece
TypeResume ==
    /\ mapResult = NoResult
    /\ resumePieces < MaxPieces
    /\ \E piece \in ResumePieces : resumeText' = resumeText \o piece
    /\ resumePieces' = resumePieces + 1
    /\ UNCHANGED <<jobDescription, mapResult, scoreResult>>

\* the candidate pastes a resume text into the empty field; one more piece
\* can be typed after it
PasteResume ==
    /\ mapResult = NoResult
    /\ resumeText = <<>>
    /\ resumePieces = 0
    /\ resumeText' = PastedResume
    /\ resumePieces' = MaxPieces - 1
    /\ UNCHANGED <<jobDescription, mapResult, scoreResult>>

\* the recruiter adds a required skill to the screening
AddRequiredSkill ==
    /\ mapResult = NoResult
    /\ Len(jobDescription.requiredSkills) < MaxRequired
    /\ \E name \in RequiredNames :
           jobDescription' = [jobDescription EXCEPT !.requiredSkills = Append(@, name)]
    /\ UNCHANGED <<resumeText, resumePieces, mapResult, scoreResult>>

\* the recruiter adds a preferred skill to the screening
AddPreferredSkill ==
    /\ mapResult = NoResult
    /\ Len(jobDescription.preferredSkills) < MaxPreferred
    /\ \E name \in PreferredNames :
           jobDescription' = [jobDescription EXCEPT !.preferredSkills = Append(@, name)]
    /\ UNCHANGED <<resumeText, resumePieces, mapResult, scoreResult>>

\* handleResumeSubmit evaluates mapSkillsToRequirements(resume, jobDescription)
MapSkills ==
    /\ mapResult = NoResult
    /\ mapResult' = mapSkillsToRequirements(resumeText, jobDescription)
    /\ UNCHANGED <<resumeText, resumePieces, jobDescription, scoreResult>>

\* processAnswer evaluates scoreAnswerAuthenticity(answer, question) for a
\* question generated from a focus skill of the mapping
ScoreAnswer ==
    /\ mapResult \notin {NoResult, Thrown}
    /\ scoreResult = NoResult
    /\ \E answer \in AnswerProfiles :
       \E focus \in Range(identifyFocusSkills(mapResult)) :
           scoreResult' = scoreAnswerAuthenticity(
                              answer,
                              [skill |-> focus.skill,
                               type |-> IF focus.priority = "high" THEN "experience" ELSE "depth",
                               priority |-> focus.priority])
    /\ UNCHANGED <<resumeText, resumePieces, jobDescription, mapResult>>

NextSkill ==
    \/ TypeResume /\ UNCHANGED <<decisionVars, authVars, interviewVars, textVars, questionVars, codeVars, followUpVars>>
    \/ PasteResume /\ UNCHANGED <<decisionVars, authVars, interviewVars, textVars, questionVars, codeVars, followUpVars>>
    \/ AddRequiredSkill /\ UNCHANGED <<decisionVars, authVars, interviewVars, textVars, questionVars, codeVars, followUpVars>>
    \/ AddPreferredSkill /\ UNCHANGED <<decisionVars, authVars, interviewVars, textVars, questionVars, codeVars, followUpVars>>
    \/ MapSkills /\ UNCHANGED <<decisionVars, authVars, interviewVars, textVars, questionVars, codeVars, followUpVars>>
    \/ ScoreAnswer /\ UNCHANGED <<decisionVars, authVars, interviewVars, textVars, questionVars, codeVars, followUpVars>>

SpecSkill == InitSkill /\ [][NextSkill]_vars

\* ---- generateFollowUpQuestion on its own, within one session ----
InitFollowUps ==
    /\ IdleFollowUps
    /\ IdleCodes
    /\ IdleQuestions
    /\ IdleText
    /\ IdleDecision
    /\ IdleAuth
    /\ IdleSkill
    /\ IdleInterview

\* processAnswer calls generateFollowUpQuestion(analysis, currentQuestion,
\* answer) for an analysis that asks for a follow-up; the answer has key
\* topics or not
GenerateFollowUp ==
    /\ followUpCall.calls < MaxFollowUpCalls
    /\ \E followUpType \in {"specificity", "depth", "consistency"},
          hasKeyTopics \in BOOLEAN, random \in RandomDraws,
          originalQuestion \in {generateOpeningQuestion, generateClosingQuestion} :
       \E followUp \in {generateFollowUpQuestion(
                            [needsFollowUp |-> TRUE, followUpType |-> followUpType],
                            originalQuestion, [hasKeyTopics |-> hasKeyTopics],
                            followUpCall.used, random)} :
           followUpCall' =
               [calls |-> followUpCall.calls + 1,
                used |-> followUp.usedTemplates,
                selected |-> followUpCall.selected \cup {followUp.question.text},
                last |-> [followUpType |-> followUpType,
                          hasKeyTopics |-> hasKeyTopics,
                          usedBefore |-> followUpCall.used,
                          selectedBefore |-> followUpCall.selected,
                          question |-> followUp.question]]

NextFollowUps ==
    \/ GenerateFollowUp /\ UNCHANGED <<decisionVars, authVars, skillVars, textVars, questionVars, codeVars, interviewVars>>

SpecFollowUps == InitFollowUps /\ [][NextFollowUps]_vars

\* ---- the start of a screening: CodeEntry, App and the server ----
\* checkApplicantExists(code, email) of database.js
checkApplicantExists(table, code, email) ==
    \E i \in DOMAIN table :
        table[i].code = toUpperCase(code) /\ table[i].applicant_email = toLowerCase(email)

\* startScreening(code, applicantEmail, ...) of database.js: the table
\* afterwards and the result; the id of a row is its position
startScreening(table, code, applicantEmail) ==
    IF checkApplicantExists(table, code, applicantEmail)
    THEN [table |-> table, success |-> FALSE, screeningId |-> 0]
    ELSE [table |-> Append(table, [code |-> toUpperCase(code),
                                   applicant_email |-> toLowerCase(applicantEmail)]),
          success |-> TRUE, screeningId |-> Len(table) + 1]

InitCodes ==
    /\ IdleCodes
    /\ IdleFollowUps
    /\ IdleQuestions
    /\ IdleText
    /\ IdleDecision
    /\ IdleAuth
    /\ IdleSkill
    /\ IdleInterview

\* handleStartScreening up to its await: the check request is sent
handleStartScreening(t) ==
    /\ tabs[t].step = "details"
    /\ \E code \in ScreeningCodes, email \in TypedEmails :
           tabs' = [tabs EXCEPT ![t] = [@ EXCEPT !.step = "checking",
                                                 !.code = code, !.email = email]]
    /\ UNCHANGED screenings

\* the server answers POST /codes/:code/check and handleStartScreening
\* resumes: an error message if already taken, else onSuccess, which is
\* handleCodeValidated (phase applicant_resume)
CheckSettles(t) ==
    /\ tabs[t].step = "checking"
    /\ tabs' = [tabs EXCEPT ![t].step =
                   IF checkApplicantExists(screenings, tabs[t].code, tabs[t].email)
                   THEN "details" ELSE "resume"]
    /\ UNCHANGED screenings

\* handleResumeSubmit up to its await: the start request is sent
SubmitResume(t) ==
    /\ tabs[t].step = "resume"
    /\ tabs' = [tabs EXCEPT ![t].step = "starting"]
    /\ UNCHANGED screenings

\* the server answers POST /codes/:code/start and handleResumeSubmit
\* resumes: setScreeningId on success, console.error in the catch on
\* failure, and in both cases the questions are generated and the phase
\* becomes applicant_interview
StartSettles(t) ==
    /\ tabs[t].step = "starting"
    /\ \E result \in {startScreening(screenings, tabs[t].code, tabs[t].email)} :
           /\ screenings' = result.table
           /\ tabs' = [tabs EXCEPT ![t] = [@ EXCEPT !.step = "interview",
                                                    !.screeningId = result.screeningId]]

NextCodes ==
    \/ \E t \in Tabs : handleStartScreening(t) /\ UNCHANGED <<decisionVars, authVars, skillVars, textVars, questionVars, interviewVars, followUpVars>>
    \/ \E t \in Tabs : CheckSettles(t) /\ UNCHANGED <<decisionVars, authVars, skillVars, textVars, questionVars, interviewVars, followUpVars>>
    \/ \E t \in Tabs : SubmitResume(t) /\ UNCHANGED <<decisionVars, authVars, skillVars, textVars, questionVars, interviewVars, followUpVars>>
    \/ \E t \in Tabs : StartSettles(t) /\ UNCHANGED <<decisionVars, authVars, skillVars, textVars, questionVars, interviewVars, followUpVars>>

SpecCodes == InitCodes /\ [][NextCodes]_vars

\* ---- generateInterviewQuestions on its own ----
InitQuestions ==
    /\ IdleQuestions
    /\ IdleCodes
    /\ IdleFollowUps
    /\ IdleText
    /\ IdleDecision
    /\ IdleAuth
    /\ IdleSkill
    /\ IdleInterview

\* handleResumeSubmit up to the call of generateInterviewQuestions: the
\* mapping of a resume and the focus skills; a caller may also pass no
\* focus skills
PrepareQuestions ==
    /\ questionInput = NoResult
    /\ \E resume \in QuestionResumes, required \in QuestionRequired,
          preferred \in {<<>>} \cup {<<a>> : a \in PreferredNames} :
       \E mapping \in {mapSkillsToRequirements(
                           resume, [requiredSkills |-> required,
                                    preferredSkills |-> preferred])} :
           /\ mapping # Thrown
           /\ \E focusSkills \in {identifyFocusSkills(mapping), <<>>} :
                  questionInput' = [mapping |-> mapping, focusSkills |-> focusSkills]
    /\ UNCHANGED generated

\* generateInterviewQuestions(mapping, focusSkills, questionCount) and the
\* list handleResumeSubmit builds around its result
GenerateQuestions ==
    /\ questionInput # NoResult
    /\ generated = NoResult
    /\ \E questionCount \in 0..MaxQuestionCount, shuffled \in FullShuffles :
       \E mainQuestions \in {generateInterviewQuestions(
                                 questionInput.mapping, questionInput.focusSkills,
                                 questionCount, shuffled)} :
           generated' = [questionCount |-> questionCount,
                         distribution |-> distributionOf(questionCount),
                         mainQuestions |-> mainQuestions,
                         questions |-> <<generateOpeningQuestion>> \o mainQuestions
                                       \o <<generateClosingQuestion>>]
    /\ UNCHANGED questionInput

NextQuestions ==
    \/ PrepareQuestions /\ UNCHANGED <<decisionVars, authVars, skillVars, textVars, codeVars, interviewVars, followUpVars>>
    \/ GenerateQuestions /\ UNCHANGED <<decisionVars, authVars, skillVars, textVars, codeVars, interviewVars, followUpVars>>

SpecQuestions == InitQuestions /\ [][NextQuestions]_vars

\* ---- the text functions of textAnalysis.js and analyzeNeedForFollowUp on their own ----
InitText ==
    /\ IdleText
    /\ IdleQuestions
    /\ IdleCodes
    /\ IdleFollowUps
    /\ IdleDecision
    /\ IdleAuth
    /\ IdleSkill
    /\ IdleInterview

\* the candidate's answer grows by one piece
TypeAnswer ==
    /\ textResult = NoResult
    /\ answerPieces < MaxTextPieces
    /\ \E piece \in AnswerPieces : answerText' = answerText \o piece
    /\ answerPieces' = answerPieces + 1
    /\ UNCHANGED textResult

\* a caller evaluates the text functions and analyzeNeedForFollowUp on the answer
AnalyzeAnswer ==
    /\ textResult = NoResult
    /\ \E measured \in {measuredAnswer(answerText)} :
           textResult' =
               [firstPersonCount |-> measured.firstPersonCount,
                star |-> detectSTARMethod(answerText),
                metrics |-> detectMetrics(answerText),
                specificityScore |-> measured.specificityScore,
                generic |-> [isGeneric |-> detectGenericPatterns(measured).isGeneric,
                             patterns |-> measured.genericCount,
                             genericScore |-> detectGenericPatterns(measured).genericScore],
                imperfectionScore |-> measured.imperfectionScore,
                authenticity |-> [overall |-> calculateAuthenticityScore(measured),
                                  breakdown |-> authenticityBreakdown(measured)],
                followUp |-> analyzeNeedForFollowUp(measured)]
    /\ UNCHANGED <<answerText, answerPieces>>

NextText ==
    \/ TypeAnswer /\ UNCHANGED <<decisionVars, authVars, skillVars, questionVars, codeVars, interviewVars, followUpVars>>
    \/ AnalyzeAnswer /\ UNCHANGED <<decisionVars, authVars, skillVars, questionVars, codeVars, interviewVars, followUpVars>>

SpecText == InitText /\ [][NextText]_vars

\* ---- the interview session: App.jsx and InterviewChat.jsx ----
\* the resume and the screening a candidate submits
ScreeningInputs ==
    {[resume |-> W_React \o <<" ">>, requiredSkills |-> <<W_react>>, preferredSkills |-> <<>>],
     [resume |-> W_javascript \o <<" ">>, requiredSkills |-> <<W_cpp>>, preferredSkills |-> <<>>],
     [resume |-> W_cpp11 \o <<" ">>, requiredSkills |-> <<W_cpp>>, preferredSkills |-> <<>>]}

\* the orders the shuffle of GENERIC_QUESTIONS is drawn from
GenericShuffles == {<<2, 1>>, <<3, 7>>}

\* the texts a candidate types
TypedAnswers == {DetailedAnswer.text}

MaxSessions == 2
MaxSubmissions == 4

\* the count is never read
followUpsOf_zero(count, id) == 0

\* followUpCount[questionId] || 0
followUpsOf(count, id) == IF id \in DOMAIN count THEN count[id] ELSE 0

\* InterviewChat is rendered in the interview phase only
mounted == phase = "applicant_interview"

\* the useState initial values of InterviewChat, which a mount starts from
\* and an unmount leaves behind
FreshChat ==
    /\ currentQuestionIndex' = 0
    /\ isTyping' = FALSE
    /\ interviewComplete' = FALSE
    /\ qaPairs' = <<>>
    /\ followUpCount' = [id \in {} |-> 0]

\* the App state handleInterviewComplete reads from its closure
appClosure == [session |-> session, screeningId |-> screeningId, skillMapping |-> skillMapping]

Init ==
    /\ InitInterview
    /\ aiAvailable \in BOOLEAN
    /\ IdleDecision
    /\ IdleAuth
    /\ IdleSkill
    /\ IdleText
    /\ IdleQuestions
    /\ IdleCodes
    /\ IdleFollowUps

\* handleSelectRole('applicant')
handleSelectRole ==
    /\ phase = "role_select"
    /\ phase' = "applicant_code"
    /\ UNCHANGED <<skillMapping, questions, screeningId, recruiterReport, aiAvailable,
                   usedTemplates, database, completeRuns, chatVars, timerVars, ghostVars>>

\* handleCodeValidated(data)
handleCodeValidated ==
    /\ phase = "applicant_code"
    /\ phase' = "applicant_resume"
    /\ UNCHANGED <<skillMapping, questions, screeningId, recruiterReport, aiAvailable,
                   usedTemplates, database, completeRuns, chatVars, timerVars, ghostVars>>

\* handleResumeSubmit(resume, extractedName); startApplicantScreening answers
\* with a new screening id.  When mapSkillsToRequirements throws the handler
\* ends there, the screening id already set.
handleResumeSubmit ==
    /\ phase = "applicant_resume"
    /\ session < MaxSessions
    /\ \E input \in ScreeningInputs, shuffled \in GenericShuffles :
       \E mapping \in {mapSkillsToRequirements(
                             input.resume,
                             [requiredSkills |-> input.requiredSkills,
                              preferredSkills |-> input.preferredSkills])} :
              /\ session' = session + 1
              /\ screeningId' = session + 1
              /\ IF mapping = Thrown
                 THEN UNCHANGED <<phase, skillMapping, questions, submitted, followUps,
                                  onCompleteCalls>>
                 ELSE /\ skillMapping' = mapping
                      /\ questions' = <<generateOpeningQuestion>>
                                      \o generateInterviewQuestions(
                                             mapping, identifyFocusSkills(mapping), 2, shuffled)
                                      \o <<generateClosingQuestion>>
                      /\ phase' = "applicant_interview"
                      /\ submitted' = <<>>
                      /\ followUps' = <<>>
                      /\ onCompleteCalls' = <<>>
    /\ FreshChat
    /\ UNCHANGED <<recruiterReport, aiAvailable, usedTemplates, database, completeRuns,
                   timerVars, answers>>

\* processAnswer(answer) up to its await
processAnswer(answer) ==
    \E authScore \in {scoreAnswerAuthenticity(AnswerOf(answer),
                                               questions[currentQuestionIndex + 1])} :
    LET currentQuestion == questions[currentQuestionIndex + 1]
        qaPair == [question |-> currentQuestion, answer |-> answer, authenticity |-> authScore]
        nextIndex == currentQuestionIndex + 1
    IN /\ submitted' = Append(submitted, [question |-> currentQuestion.id, answer |-> answer])
       /\ answers' = answers + 1
       /\ IF authScore = Thrown
          THEN \* catch (error)
               /\ isTyping' = FALSE
               /\ currentQuestionIndex' = IF nextIndex < Len(questions) THEN nextIndex
                                          ELSE currentQuestionIndex
               /\ UNCHANGED <<qaPairs, pendingAnswer>>
          ELSE /\ isTyping' = TRUE
               /\ qaPairs' = Append(qaPairs, qaPair)
               /\ pendingAnswer' =
                      [answer |-> answer,
                       currentQuestion |-> currentQuestion,
                       currentQuestionIndex |-> currentQuestionIndex,
                       currentFollowUps |-> followUpsOf(followUpCount, currentQuestion.id),
                       qaPairs |-> qaPairs,
                       qaPair |-> qaPair,
                       app |-> appClosure]
               /\ UNCHANGED currentQuestionIndex
       /\ UNCHANGED <<appVars, interviewComplete, followUpCount, completionTimer,
                      session, onCompleteCalls, followUps>>

\* handleSubmit(e) with the text the candidate typed in the answer box
handleSubmit ==
    /\ mounted
    /\ ~ isTyping
    /\ ~ interviewComplete
    /\ answers < MaxSubmissions
    /\ \E inputValue \in TypedAnswers : processAnswer(inputValue)

\* handleTimeUp(), called by the interval of the timer effect, which runs
\* while neither isTyping nor interviewComplete is set.  The answer box is
\* empty when the time runs out, so inputValue.trim() is '' in the handler.
handleTimeUp ==
    /\ mounted
    /\ ~ isTyping
    /\ ~ interviewComplete
    /\ answers < MaxSubmissions
    /\ processAnswer(NoResponseAnswer.text)

\* processAnswer after its 300 ms await, when a follow-up is due
ProcessAnswerFollowUp ==
    /\ pendingAnswer # NoResult
    /\ LET p == pendingAnswer IN
       \E analysis \in {analyzeNeedForFollowUp(AnswerOf(pendingAnswer.answer))} :
          /\ analysis.needsFollowUp
          /\ p.currentFollowUps < getMaxFollowUps(p.currentQuestion)
          /\ \E random \in RandomDraws :
              \E followUp \in {generateFollowUpQuestion(
                                   analysis, p.currentQuestion, AnswerOf(p.answer),
                                   usedTemplates, random)} :
                    /\ usedTemplates' = followUp.usedTemplates
                    /\ followUps' = IF p.app.session = session
                                    THEN Append(followUps, followUp.question)
                                    ELSE followUps
          /\ IF mounted
             THEN /\ followUpCount' =
                         [id \in DOMAIN followUpCount \cup {p.currentQuestion.id} |->
                             IF id = p.currentQuestion.id THEN p.currentFollowUps + 1
                             ELSE followUpCount[id]]
                  /\ isTyping' = FALSE
             ELSE UNCHANGED <<followUpCount, isTyping>>
    /\ pendingAnswer' = NoResult
    /\ UNCHANGED <<phase, skillMapping, questions, screeningId, recruiterReport, aiAvailable,
                   database, completeRuns, currentQuestionIndex, interviewComplete, qaPairs,
                   completionTimer, session, submitted, onCompleteCalls, answers>>

\* processAnswer after its await, when no follow-up is issued
ProcessAnswerAdvance ==
    /\ pendingAnswer # NoResult
    /\ LET p == pendingAnswer
           analysis == analyzeNeedForFollowUp(AnswerOf(pendingAnswer.answer))
           nextIndex == pendingAnswer.currentQuestionIndex + 1
       IN /\ ~ (analysis.needsFollowUp /\ p.currentFollowUps < getMaxFollowUps(p.currentQuestion))
          /\ IF nextIndex >= Len(questions)
             THEN \* setTimeout(() => onComplete(allQaPairs), 1000)
                  /\ completionTimer' = [qaPairs |-> Append(p.qaPairs, p.qaPair), app |-> p.app]
                  /\ IF mounted
                     THEN interviewComplete' = TRUE /\ isTyping' = FALSE
                     ELSE UNCHANGED <<interviewComplete, isTyping>>
                  /\ UNCHANGED currentQuestionIndex
             ELSE /\ IF mounted
                     THEN /\ currentQuestionIndex' = nextIndex
                          /\ isTyping' = FALSE
                     ELSE UNCHANGED <<currentQuestionIndex, isTyping>>
                  /\ UNCHANGED <<completionTimer, interviewComplete>>
    /\ pendingAnswer' = NoResult
    /\ UNCHANGED <<appVars, qaPairs, followUpCount, ghostVars>>

\* handleInterviewComplete(qaPairs) up to its first await
handleInterviewComplete(payload, app) ==
    /\ phase' = "applicant_processing"
    /\ completeRuns' = Append(completeRuns,
                              [app |-> app, qaPairs |-> payload, pc |-> "delay",
                               report |-> NoResult])
    /\ onCompleteCalls' = Append(onCompleteCalls, [session |-> app.session, qaPairs |-> payload])
    /\ FreshChat
    /\ UNCHANGED <<skillMapping, questions, screeningId, recruiterReport, aiAvailable,
                   usedTemplates, database, pendingAnswer, session, submitted, followUps,
                   answers>>

\* handleEndInterview(): the End Interview button is never disabled
handleEndInterview ==
    /\ mounted
    /\ handleInterviewComplete(qaPairs, appClosure)
    /\ UNCHANGED completionTimer

\* the 1000 ms timer of the last answer calls onComplete(allQaPairs)
CompletionTimerFires ==
    /\ completionTimer # NoResult
    /\ handleInterviewComplete(completionTimer.qaPairs, completionTimer.app)
    /\ completionTimer' = NoResult

\* the reports a run has built, and where it goes next
afterReports(run) == IF run.app.screeningId # 0 THEN "db" ELSE "done"

\* handleInterviewComplete after its 2000 ms await: the evaluation, then the
\* call of generateAIReport when isAIAvailable().  The 300 ms and 1000 ms
\* timers of InterviewChat that were pending when the run started have fired
\* by then, and an earlier run is past its own 2000 ms.
ProcessingDelayDone ==
    /\ pendingAnswer = NoResult
    /\ completionTimer = NoResult
    /\ \E i \in DOMAIN completeRuns :
           /\ completeRuns[i].pc = "delay"
           /\ \A j \in 1..(i - 1) : completeRuns[j].pc # "delay"
           /\ \E run \in {completeRuns[i]},
                 report \in {evaluateInterview(completeRuns[i].qaPairs,
                                               completeRuns[i].app.skillMapping)} :
                 IF aiAvailable
                 THEN /\ completeRuns' = [completeRuns EXCEPT ![i].pc = "ai", ![i].report = report]
                      /\ UNCHANGED recruiterReport
                 ELSE /\ completeRuns' = [completeRuns EXCEPT ![i].pc = afterReports(run),
                                                              ![i].report = report]
                      /\ recruiterReport' = report
    /\ UNCHANGED <<phase, skillMapping, questions, screeningId, aiAvailable, usedTemplates,
                   database, chatVars, timerVars, ghostVars>>

\* the awaited generateAIReport call settles, with a report or with a failure
AIReportSettles ==
    /\ \E i \in DOMAIN completeRuns :
           /\ completeRuns[i].pc = "ai"
           /\ completeRuns' = [completeRuns EXCEPT ![i].pc = afterReports(completeRuns[i])]
           /\ recruiterReport' = completeRuns[i].report
    /\ UNCHANGED <<phase, skillMapping, questions, screeningId, aiAvailable, usedTemplates,
                   database, chatVars, timerVars, ghostVars>>

\* the awaited updateScreening call settles and the run sets the results phase
UpdateScreeningSettles ==
    /\ \E i \in DOMAIN completeRuns :
           LET run == completeRuns[i]
           IN /\ run.pc \in {"db", "done"}
              /\ database' = IF run.pc = "db"
                             THEN Append(database,
                                         [screeningId |-> run.app.screeningId,
                                          verdict |-> run.report.decision])
                             ELSE database
              /\ completeRuns' = SubSeq(completeRuns, 1, i - 1)
                                 \o SubSeq(completeRuns, i + 1, Len(completeRuns))
    /\ phase' = "applicant_results"
    /\ FreshChat
    /\ UNCHANGED <<skillMapping, questions, screeningId, recruiterReport, aiAvailable,
                   usedTemplates, timerVars, ghostVars>>

\* handleReset(), from the results screen
handleReset ==
    /\ phase = "applicant_results"
    /\ phase' = "role_select"
    /\ skillMapping' = NoResult
    /\ questions' = <<>>
    /\ screeningId' = 0
    /\ recruiterReport' = NoResult
    /\ UNCHANGED <<aiAvailable, usedTemplates, database, completeRuns, chatVars, timerVars,
                   ghostVars>>

\* the steps the program takes by itself once their timer or request is due
ProgramStep ==
    \/ ProcessAnswerFollowUp
    \/ ProcessAnswerAdvance
    \/ CompletionTimerFires
    \/ ProcessingDelayDone
    \/ UpdateScreeningSettles

Next ==
    \/ handleSelectRole /\ UNCHANGED <<decisionVars, authVars, skillVars, textVars, questionVars, codeVars, followUpVars>>
    \/ handleCodeValidated /\ UNCHANGED <<decisionVars, authVars, skillVars, textVars, questionVars, codeVars, followUpVars>>
    \/ handleResumeSubmit /\ UNCHANGED <<decisionVars, authVars, skillVars, textVars, questionVars, codeVars, followUpVars>>
    \/ handleSubmit /\ UNCHANGED <<decisionVars, authVars, skillVars, textVars, questionVars, codeVars, followUpVars>>
    \/ handleTimeUp /\ UNCHANGED <<decisionVars, authVars, skillVars, textVars, questionVars, codeVars, followUpVars>>
    \/ ProcessAnswerFollowUp /\ UNCHANGED <<decisionVars, authVars, skillVars, textVars, questionVars, codeVars, followUpVars>>
    \/ ProcessAnswerAdvance /\ UNCHANGED <<decisionVars, authVars, skillVars, textVars, questionVars, codeVars, followUpVars>>
    \/ handleEndInterview /\ UNCHANGED <<decisionVars, authVars, skillVars, textVars, questionVars, codeVars, followUpVars>>
    \/ CompletionTimerFires /\ UNCHANGED <<decisionVars, authVars, skillVars, textVars, questionVars, codeVars, followUpVars>>
    \/ ProcessingDelayDone /\ UNCHANGED <<decisionVars, authVars, skillVars, textVars, questionVars, codeVars, followUpVars>>
    \/ AIReportSettles /\ UNCHANGED <<decisionVars, authVars, skillVars, textVars, questionVars, codeVars, followUpVars>>
    \/ UpdateScreeningSettles /\ UNCHANGED <<decisionVars, authVars, skillVars, textVars, questionVars, codeVars, followUpVars>>
    \/ handleReset /\ UNCHANGED <<decisionVars, authVars, skillVars, textVars, questionVars, codeVars, followUpVars>>

Spec == Init /\ [][Next]_vars

\* timers fire and the screening API answers; a click, a keystroke and the
\* answer of the AI service are not promised
FairSpec == Spec /\ WF_vars(ProgramStep /\ UNCHANGED <<decisionVars, authVars, skillVars, textVars, questionVars, codeVars, followUpVars>>)

(***************************************************************************)
(* Claims                                                                  *)
(***************************************************************************)
\* C1: for every combination of the five metrics makeDecision returns REJECT
\* when authenticity < 40, otherwise REJECT when skillMatch < 35, otherwise
\* PASS exactly when overallScore >= 70, skillMatch >= 70 and authenticity
\* >= 65, otherwise HOLD exactly when overallScore >= 50 and skillMatch >= 50,
\* otherwise REJECT; the verdict is one of PASS, HOLD, REJECT.
C1_VerdictCascade ==
    decisionResult # NoResult =>
        LET m == metrics
            o == decisionResult.overallScore
            claimed ==
                IF m.authenticity < 40 THEN "REJECT"
                ELSE IF m.skillMatch < 35 THEN "REJECT"
                ELSE IF o >= 70 /\ m.skillMatch >= 70 /\ m.authenticity >= 65 THEN "PASS"
                ELSE IF o >= 50 /\ m.skillMatch >= 50 THEN "HOLD"
                ELSE "REJECT"
        IN /\ decisionResult.decision = claimed
           /\ decisionResult.decision \in {"PASS", "HOLD", "REJECT"}

\* a candidate meeting the PASS skill and authenticity thresholds is held
\* because the overall score is below 70
C1_Witness ==
    /\ decisionResult # NoResult
    /\ decisionResult.decision = "HOLD"
    /\ metrics.skillMatch >= 70
    /\ metrics.authenticity >= 65
    /\ decisionResult.overallScore < 70

Scenario5 ==
    [skillMatch |-> 80, authenticity |-> 70, depth |-> 60,
     communication |-> 60, consistency |-> 70]

C3_OverallAuthenticityFormula ==
    (authResult # NoResult /\ Len(qaInput) > 0) =>
        LET w10(qa) == IF qa.priority = "high" THEN 15
                       ELSE IF qa.priority = "medium" THEN 10 ELSE 7
            sw(qa) == qa.score * w10(qa)
            flagsOf(qa) == qa.redFlags
            sumW == SumSeq(SeqMap(w10, qaInput))
            sumSW == SumSeq(SeqMap(sw, qaInput))
            flags == SumSeq(SeqMap(flagsOf, qaInput))
            D == 100 * sumW
            exactD == sumSW * authResult.consistencyScore - 3 * flags * D
            targetD == Max2(20 * D, exactD)
            diff == authResult.score * D - targetD
        IN diff <= D /\ -diff <= D

\* what C4 says of a returned mapping
SkillMatchScoreFormula(mapping) ==
    LET req == parseJobRequirements(jobDescription).mustHave
        names == {req[i].skill : i \in DOMAIN req}
        isRequired(e) == e.importance = "required"
        count(list, n) == Len(SelectSeq(list, LAMBDA e : isRequired(e) /\ e.skill = n))
        mult(n) == Cardinality({i \in DOMAIN req : req[i].skill = n})
        holders(n) == {l \in {"strong", "weak", "missing"} : count(mapping[l], n) > 0}
        t == Len(req)
        m2 == 2 * Len(SelectSeq(mapping.strong, isRequired))
              + Len(SelectSeq(mapping.weak, isRequired))
        score == mapping.skillMatchScore
    IN /\ \A n \in names :
              /\ Cardinality(holders(n)) = 1
              /\ \A l \in holders(n) : count(mapping[l], n) = mult(n)
       /\ score \in 0..100
       /\ t = 0 => score = 50
       /\ t > 0 => /\ 2 * t * score <= 100 * m2 + t
                   /\ 2 * t * score > 100 * m2 - t

\* C4: for every resume and every list of required skills,
\* mapSkillsToRequirements places each required skill in exactly one of
\* strong, weak or missing and returns skillMatchScore = round(100 * (strong
\* required + 0.5 * weak required) / total required), within 0..100, and 50
\* when nothing is required.
C4_SkillMatchScore ==
    mapResult # NoResult =>
        /\ mapResult # Thrown
        /\ SkillMatchScoreFormula(mapResult)

\* C9: no public core function throws: scoreAnswerAuthenticity returns a
\* result for every answer and every question generated from the required
\* skills, and mapSkillsToRequirements returns a mapping for every resume.
C9_NoThrow ==
    /\ mapResult # Thrown
    /\ scoreResult # Thrown

\* the cap C5 states: 2 for a high-priority question, 1 for every other
claimedMaxFollowUps(q) == IF q.priority = "high" THEN 2 ELSE 1

\* the follow-up questions issued for question q in this session
issuedFor(q) == Len(SelectSeq(followUps, LAMBDA f : f.parentQuestionId = q.id))

\* processAnswer finishes an answer to a question whose budget is used
BudgetUsedStep ==
    /\ mounted
    /\ pendingAnswer # NoResult
    /\ pendingAnswer' = NoResult
    /\ issuedFor(pendingAnswer.currentQuestion)
         >= claimedMaxFollowUps(pendingAnswer.currentQuestion)

\* no follow-up is issued and the interview moves on or completes
AdvancedStep ==
    /\ followUps' = followUps
    /\ \/ currentQuestionIndex' = currentQuestionIndex + 1
       \/ interviewComplete' /\ completionTimer' # NoResult

\* C5: in every interview run the number of follow-up questions issued for a
\* question never exceeds 2 when its priority is high and 1 otherwise, and
\* once that budget is used the next answer to the question advances to the
\* next question or completes the interview.
C5_FollowUpBudget ==
    /\ [](\A i \in DOMAIN questions :
              issuedFor(questions[i]) <= claimedMaxFollowUps(questions[i]))
    /\ [][BudgetUsedStep => AdvancedStep]_vars

\* the opening question got its two follow-ups and the third answer moved the
\* interview to the next question
C5_Witness ==
    /\ mounted
    /\ currentQuestionIndex = 1
    /\ issuedFor(questions[1]) = 2
    /\ Len(submitted) = 3
    /\ pendingAnswer = NoResult

\* C6: under every interleaving of submissions, the 300 ms and 1 s delays,
\* timer expiry and End Interview, the completion callback is invoked at most
\* once per session and the session's verdict is persisted at most once.
C6_CompletedOnce ==
    /\ \A s \in 1..MaxSessions :
           Len(SelectSeq(onCompleteCalls, LAMBDA c : c.session = s)) <= 1
    /\ \A s \in 1..MaxSessions :
           Len(SelectSeq(database, LAMBDA r : r.screeningId = s)) <= 1

\* C7: at the start of every interview session the set of used follow-up
\* templates is empty.
C7_TemplatesEmptyAtSessionStart ==
    (mounted /\ submitted = <<>>) => usedTemplates = {}

\* C8: the answer list handed to the completion callback holds exactly one
\* record for every answer submitted in the session, in submission order,
\* each with its question, its answer text and its authenticity result.
C8_EveryAnswerRecorded ==
    \A c \in DOMAIN onCompleteCalls :
        LET handed == onCompleteCalls[c].qaPairs
        IN /\ Len(handed) = Len(submitted)
           /\ \A j \in DOMAIN handed :
                  /\ handed[j].question.id = submitted[j].question
                  /\ handed[j].answer = submitted[j].answer
                  /\ handed[j].authenticity.score \in 0..100

\* C10: after the interview completes the session reaches the results phase
\* and its verdict is persisted whether or not the AI report call ever
\* returns, and the heuristic decision is computed before that call is made.
C10_ResultsNeverWaitOnAI ==
    /\ \A s \in 1..MaxSessions :
           (\E i \in DOMAIN completeRuns : completeRuns[i].app.session = s)
               ~> (\E j \in DOMAIN database : database[j].screeningId = s)
    /\ (phase = "applicant_processing") ~> (phase = "applicant_results")
    /\ [](\A i \in DOMAIN completeRuns :
              completeRuns[i].pc = "ai" => completeRuns[i].report # NoResult)

\* the names a requirement can be mentioned under: the skill itself, its
\* aliases, and the canonical skill it is an alias of
mentionNames(name) ==
    {name}
    \cup {SKILL_ALIASES[i].alias : i \in {x \in DOMAIN SKILL_ALIASES : SKILL_ALIASES[x].canonical = name}}
    \cup {SKILL_ALIASES[i].canonical : i \in {x \in DOMAIN SKILL_ALIASES : SKILL_ALIASES[x].alias = name}}

\* the resume holds one of the names as a whole word
mentionedInResume(name) ==
    \E n \in mentionNames(name) :
        \E i \in 1..Len(resumeText) :
            /\ MatchAt(resumeText, n, i)
            /\ (i = 1 \/ ~ IsWordChar(resumeText[i - 1]))
            /\ (i + Len(n) > Len(resumeText) \/ ~ IsWordChar(resumeText[i + Len(n)]))

\* the required entries of a list of the mapping that carry the name
requiredIn(list, name) ==
    \E j \in DOMAIN list : list[j].importance = "required" /\ list[j].skill = name

\* C11: a required skill is classified missing whenever neither the skill
\* nor any of its aliases occurs as a whole word in the resume, and it is
\* strong or weak only when the resume mentions it ("javascript" alone
\* leaves required "java" missing).
C11_MissingWhenNotMentioned ==
    (mapResult # NoResult /\ mapResult # Thrown) =>
        \A i \in DOMAIN mapResult.requirements.mustHave :
            LET name == mapResult.requirements.mustHave[i].skill
            IN ~ mentionedInResume(name) =>
                   /\ requiredIn(mapResult.missing, name)
                   /\ ~ requiredIn(mapResult.strong, name)
                   /\ ~ requiredIn(mapResult.weak, name)

\* the canonical skills the name is an alias of
canonicalsOf(name) ==
    {SKILL_ALIASES[i].canonical : i \in {x \in DOMAIN SKILL_ALIASES : SKILL_ALIASES[x].alias = name}}

\* the list holds an entry for the requirement
placedIn(list, req) ==
    \E j \in DOMAIN list : list[j].importance = req.importance /\ list[j].skill = req.skill

\* C12: a required or preferred skill written as an alias a of a canonical
\* skill c (for example "k8s") is matched to the resume skill extracted under
\* c and is classified strong or weak rather than missing.
C12_AliasNormalizedMatch ==
    (mapResult # NoResult /\ mapResult # Thrown) =>
        LET extracted == extractSkillsFromResume(resumeText).value
            all == mapResult.requirements.mustHave \o mapResult.requirements.niceToHave
        IN \A i \in DOMAIN all :
               (\E j \in DOMAIN extracted : extracted[j].skill \in canonicalsOf(all[i].skill))
                   => /\ placedIn(mapResult.strong, all[i]) \/ placedIn(mapResult.weak, all[i])
                      /\ ~ placedIn(mapResult.missing, all[i])

\* C13: with depth, authenticity, communication and consistency fixed, a
\* higher skillMatch never gives a lower overallScore from makeDecision.
C13_SkillMatchMonotone ==
    (/\ earlierDecision # NoResult
     /\ metrics.skillMatch > earlierDecision.metrics.skillMatch
     /\ metrics = [earlierDecision.metrics EXCEPT !.skillMatch = metrics.skillMatch])
        => decisionResult.overallScore >= earlierDecision.result.overallScore

\* a rise of skillMatch from 34 to 35 with the overall score strictly higher
C13_Witness ==
    /\ earlierDecision # NoResult
    /\ earlierDecision.metrics.skillMatch = 34
    /\ metrics.skillMatch = 35
    /\ decisionResult.overallScore > earlierDecision.result.overallScore

\* the questions of the session: opening, main, closing, then the follow-ups
sessionQuestions == questions \o followUps

\* C14: among the opening question, the generated main questions, the
\* closing question and every follow-up issued during the interview, no two
\* questions have the same id.
C14_UniqueQuestionIds ==
    \A i, j \in DOMAIN sessionQuestions :
        sessionQuestions[i].id = sessionQuestions[j].id => i = j

\* C15: for the empty string every text-signal function returns zero scores
\* and false flags: countFirstPersonIndicators, detectSTARMethod (score 0,
\* componentCount 0, isComplete false), detectMetrics,
\* calculateSpecificityScore, detectGenericPatterns,
\* calculateImperfectionScore and calculateAuthenticityScore (overall and
\* every breakdown score 0).
C15_EmptyTextAllZero ==
    (textResult # NoResult /\ answerText = <<>>) =>
        /\ textResult.firstPersonCount = 0
        /\ textResult.star.score = 0
        /\ textResult.star.componentCount = 0
        /\ ~ textResult.star.isComplete
        /\ ~ textResult.metrics.hasMetrics
        /\ textResult.metrics.count = 0
        /\ textResult.metrics.score = 0
        /\ textResult.specificityScore = 0
        /\ ~ textResult.generic.isGeneric
        /\ textResult.generic.genericScore = 0
        /\ textResult.imperfectionScore = 0
        /\ textResult.authenticity.overall = 0
        /\ \A k \in DOMAIN textResult.authenticity.breakdown :
               textResult.authenticity.breakdown[k] = 0

Scenario2 ==
    chars("It depends on the situation, and typically the standard approach is best practice")

\* C17: for the answer of scenario 2 detectGenericPatterns finds at least 3
\* phrases and returns isGeneric = true and genericScore = 45; for every
\* answer isGeneric holds exactly when at least 2 listed phrases occur and
\* genericScore = min(15 * matchCount, 100).
C17_GenericPatterns ==
    textResult # NoResult =>
        /\ textResult.generic.isGeneric <=> (foundPatternCount(answerText) >= 2)
        /\ textResult.generic.genericScore = Min2(15 * foundPatternCount(answerText), 100)
        /\ answerText = Scenario2 =>
               /\ textResult.generic.patterns >= 3
               /\ textResult.generic.isGeneric
               /\ textResult.generic.genericScore = 45

\* C18: for every answer of length 50 with no first-person pronoun and no
\* metric, analyzeNeedForFollowUp returns needsFollowUp = true with
\* followUpType "depth" and reason "Answer is too brief".
C18_BriefAnswerFollowUp ==
    (/\ textResult # NoResult
     /\ Len(answerText) = 50
     /\ textResult.firstPersonCount = 0
     /\ ~ textResult.metrics.hasMetrics) =>
        /\ textResult.followUp.needsFollowUp
        /\ textResult.followUp.followUpType = "depth"
        /\ textResult.followUp.reason = "Answer is too brief"

\* C15 (amended): for the empty string every text-signal function returns
\* zero scores and false flags, except that calculateAuthenticityScore
\* returns naturalLanguage = 100 (100 - genericScore) and overall = 25
\* (0.20 * 100 for naturalLanguage plus 0.10 * 50 for the neutral
\* depthConsistency term).
C15_EmptyTextSignals ==
    (textResult # NoResult /\ answerText = <<>>) =>
        /\ textResult.firstPersonCount = 0
        /\ textResult.star = [score |-> 0, componentCount |-> 0, isComplete |-> FALSE,
                              components |-> [situation |-> FALSE, task |-> FALSE,
                                              action |-> FALSE, result |-> FALSE]]
        /\ textResult.metrics = [hasMetrics |-> FALSE, count |-> 0, score |-> 0]
        /\ textResult.specificityScore = 0
        /\ textResult.generic = [isGeneric |-> FALSE, patterns |-> 0, genericScore |-> 0]
        /\ textResult.imperfectionScore = 0
        /\ textResult.authenticity.breakdown =
               [personalContext |-> 0, specificDetails |-> 0,
                imperfectNarrative |-> 0, naturalLanguage |-> 100]
        /\ textResult.authenticity.overall = 25

C15_Witness == textResult # NoResult /\ answerText = <<>>

\* C17 (amended): for the answer of scenario 2 detectGenericPatterns finds
\* 4 phrases ("typically", "best practice", "standard approach", "it
\* depends") and returns isGeneric = true and genericScore = 60; for every
\* answer isGeneric holds exactly when at least 2 listed phrases occur and
\* genericScore = min(15 * matchCount, 100).
C17_GenericPatternsScore ==
    textResult # NoResult =>
        /\ textResult.generic.isGeneric <=> (foundPatternCount(answerText) >= 2)
        /\ textResult.generic.genericScore = Min2(15 * foundPatternCount(answerText), 100)
        /\ answerText = Scenario2 =>
               /\ textResult.generic.patterns = 4
               /\ textResult.generic.isGeneric
               /\ textResult.generic.genericScore = 60

C17_Witness == textResult # NoResult /\ answerText = Scenario2

\* C18 (amended): for every answer of length 50 with no first-person pronoun
\* and no metric, analyzeNeedForFollowUp returns needsFollowUp = true; the
\* result is followUpType "depth" with reason "Answer is too brief" exactly
\* when the earlier triggers do not fire (not generic with genericScore > 30,
\* specificity score at least 30) and the answer has no suspiciously perfect
\* phrase.
C18_BriefAfterEarlierTriggers ==
    (/\ textResult # NoResult
     /\ Len(answerText) = 50
     /\ textResult.firstPersonCount = 0
     /\ ~ textResult.metrics.hasMetrics) =>
        /\ textResult.followUp.needsFollowUp
        /\ (/\ textResult.followUp.followUpType = "depth"
            /\ textResult.followUp.reason = "Answer is too brief")
           <=> (/\ ~ (textResult.generic.isGeneric /\ textResult.generic.genericScore > 30)
                /\ textResult.specificityScore >= 30
                /\ includedCount(toLowerCase(answerText), perfectIndicators) = 0)

C18_Witness ==
    /\ textResult # NoResult
    /\ Len(answerText) = 50
    /\ textResult.firstPersonCount = 0
    /\ ~ textResult.metrics.hasMetrics
    /\ textResult.followUp.reason = "Answer is too brief"

\* C16: for the resume text "I built a React dashboard that reduced load
\* time by 40% for 10,000 users" and required skills ["react"], skill
\* extraction finds react with evidence containing "React dashboard", its
\* mapping confidence is at least 70, and react is classified strong.
C16_ReactDashboardStrong ==
    (/\ mapResult # NoResult
     /\ resumeText = PastedResume
     /\ jobDescription.requiredSkills = <<W_react>>) =>
        /\ mapResult # Thrown
        /\ \E j \in DOMAIN mapResult.strong :
               /\ mapResult.strong[j].skill = W_react
               /\ mapResult.strong[j].importance = "required"
               /\ includes(mapResult.strong[j].evidence, chars("React dashboard"))
               /\ mapResult.strong[j].confidence >= 70
        /\ ~ requiredIn(mapResult.weak, W_react)

\* C19: generateInterviewQuestions called with questionCount = N returns
\* exactly N questions for every N from 1 to 8 and never more than N, for
\* every skill mapping and focus-skill list (empty ones included); with
\* N = 2 and the opening and the closing question added, a session has
\* exactly 4 questions.
C19_QuestionCount ==
    generated # NoResult =>
        /\ Len(generated.mainQuestions) <= generated.questionCount
        /\ generated.questionCount \in 1..8 =>
               Len(generated.mainQuestions) = generated.questionCount
        /\ generated.questionCount = 2 => Len(generated.questions) = 4

C19_Witness ==
    /\ generated # NoResult
    /\ questionInput.focusSkills = <<>>
    /\ questionInput.mapping.strong = <<>>
    /\ questionInput.mapping.weak = <<>>
    /\ generated.questionCount = 8
    /\ Len(generated.mainQuestions) = 8

\* the interviews started for a code and an email, compared without case
interviewsFor(code, email) ==
    {t \in Tabs : /\ tabs[t].step = "interview"
                  /\ toUpperCase(tabs[t].code) = toUpperCase(code)
                  /\ toLowerCase(tabs[t].email) = toLowerCase(email)}

\* the rows of the screenings table for a code and an email
recordsFor(code, email) ==
    {i \in DOMAIN screenings : /\ screenings[i].code = toUpperCase(code)
                               /\ screenings[i].applicant_email = toLowerCase(email)}

\* C20: a screening code can be used once per email (compared without
\* case): under every interleaving of the existence check, the start
\* request and the resume submission of the tabs, at most one interview is
\* started for a code and an email, and at most one screening record exists
\* for them.
C20_OncePerEmail ==
    \A code \in ScreeningCodes, email \in TypedEmails :
        /\ Cardinality(interviewsFor(code, email)) <= 1
        /\ Cardinality(recordsFor(code, email)) <= 1

\* the five conditions of analyzeNeedForFollowUp, read off the analysed text
triggerGeneric == textResult.generic.isGeneric /\ textResult.generic.genericScore > 30
triggerSpecificity == textResult.specificityScore < 30
triggerPersonal == textResult.firstPersonCount < 2 /\ Len(answerText) > 100
triggerBrief == Len(answerText) < 75
triggerPerfect == includedCount(toLowerCase(answerText), perfectIndicators) > 0

\* followUpType and confidence of an analysis
kindOf(analysis) == <<analysis.followUpType, analysis.confidence>>

\* C21: analyzeNeedForFollowUp takes the first matching trigger of (a)
\* generic with genericScore > 30: specificity/85, (b) specificity < 30:
\* specificity/80, (c) firstPersonCount < 2 and length > 100: depth/70, (d)
\* length < 75: depth/75; a suspiciously-perfect phrase gives consistency/90
\* whatever (a)-(d) produced; needsFollowUp is false exactly when none of
\* the five conditions holds.
C21_TriggerOrder ==
    textResult # NoResult =>
        /\ triggerPerfect => kindOf(textResult.followUp) = <<"consistency", 90>>
        /\ (~ triggerPerfect /\ triggerGeneric) =>
               kindOf(textResult.followUp) = <<"specificity", 85>>
        /\ (~ triggerPerfect /\ ~ triggerGeneric /\ triggerSpecificity) =>
               kindOf(textResult.followUp) = <<"specificity", 80>>
        /\ (~ triggerPerfect /\ ~ triggerGeneric /\ ~ triggerSpecificity /\ triggerPersonal) =>
               kindOf(textResult.followUp) = <<"depth", 70>>
        /\ (~ triggerPerfect /\ ~ triggerGeneric /\ ~ triggerSpecificity /\ ~ triggerPersonal
            /\ triggerBrief) =>
               kindOf(textResult.followUp) = <<"depth", 75>>
        /\ ~ textResult.followUp.needsFollowUp
           <=> ~ (triggerGeneric \/ triggerSpecificity \/ triggerPersonal
                  \/ triggerBrief \/ triggerPerfect)

C21_Witness ==
    /\ textResult # NoResult
    /\ triggerPerfect
    /\ triggerSpecificity
    /\ kindOf(textResult.followUp) = <<"consistency", 90>>

\* the bucket the last call draws from: contextual when the answer has key
\* topics and a contextual template is unused, else the bucket of the
\* analysis's followUpType
drawnBucket ==
    IF /\ followUpCall.last.hasKeyTopics
       /\ Range(FOLLOWUP_TEMPLATES.contextual) \ followUpCall.last.usedBefore # {}
    THEN Range(FOLLOWUP_TEMPLATES.contextual)
    ELSE Range(FOLLOWUP_TEMPLATES[followUpCall.last.followUpType])

\* C22: within one session generateFollowUpQuestion never selects a template
\* it selected before as long as the bucket it draws from (contextual when a
\* topic was extracted, else the bucket of the followUpType) holds an unused
\* template; when every applicable bucket is exhausted it returns a question
\* from the fallback pool.
C22_NoTemplateReuse ==
    followUpCall.last # NoResult =>
        /\ (drawnBucket \ followUpCall.last.usedBefore # {}) =>
               /\ followUpCall.last.question.text \in drawnBucket
               /\ followUpCall.last.question.text \notin followUpCall.last.selectedBefore
        /\ (drawnBucket \ followUpCall.last.usedBefore = {}) =>
               followUpCall.last.question.text \in Range(fallbacks)
        /\ followUpCall.last.question.text # NoTemplate
        /\ followUpCall.last.question.type = "followup"

C22_Witness ==
    /\ followUpCall.last # NoResult
    /\ followUpCall.last.hasKeyTopics
    /\ Range(FOLLOWUP_TEMPLATES.contextual) \subseteq followUpCall.last.usedBefore
    /\ Cardinality(Range(FOLLOWUP_TEMPLATES.consistency) \ followUpCall.last.usedBefore) = 1
    /\ followUpCall.last.followUpType = "consistency"
    /\ followUpCall.last.question.text \in Range(FOLLOWUP_TEMPLATES.consistency)

\* C23: for every question count N >= 1 the distribution targets are
\* experience = ceil(0.4 N), depth = ceil(0.3 N), failure = ceil(0.2 N) and
\* collaboration = max(0, N - experience - depth - failure); the
\* collaboration target is never negative.
C23_DistributionTargets ==
    (generated # NoResult /\ generated.questionCount >= 1) =>
        LET N == generated.questionCount
            experience == (4 * N + 9) \div 10
            depth == (3 * N + 9) \div 10
            failure == (2 * N + 9) \div 10
        IN /\ generated.distribution.experience = experience
           /\ generated.distribution.depth = depth
           /\ generated.distribution.failure = failure
           /\ generated.distribution.collaboration = Max2(0, N - experience - depth - failure)
           /\ generated.distribution.collaboration >= 0

\* the entries of a list
entriesOf(list) == {list[i] : i \in DOMAIN list}

\* both automatic fails apply to the metrics of the call
bothAutoRejects(m) ==
    m.authenticity < AutoRejectAuthenticity /\ m.skillMatch < AutoRejectSkillMatch

\* C24 as stated: when authenticity < 40 and skillMatch < 35 both hold,
\* makeDecision returns REJECT and the concerns list has an entry for each
\* automatic fail, the authenticity concern and the critical-skill-gap one.
C24_BothConcerns ==
    (decisionResult # NoResult /\ bothAutoRejects(metrics)) =>
        /\ decisionResult.decision = "REJECT"
        /\ "Significant authenticity concerns" \in entriesOf(decisionResult.concerns)
        /\ "Critical skill gaps for this role" \in entriesOf(decisionResult.concerns)

\* C24: when authenticity < 40 and skillMatch < 35 both hold, makeDecision
\* returns REJECT decided by the authenticity check: the concerns list starts
\* with the authenticity concern, the critical-skill-gap concern is not in
\* it, and the skill gap shows only as the per-metric concern.
C24_FirstCheckOnly ==
    (decisionResult # NoResult /\ bothAutoRejects(metrics)) =>
        /\ decisionResult.decision = "REJECT"
        /\ Head(decisionResult.concerns) = "Significant authenticity concerns"
        /\ "Critical skill gaps for this role" \notin entriesOf(decisionResult.concerns)
        /\ "Significant skill gaps for core requirements" \in entriesOf(decisionResult.concerns)

\* a decision on authenticity 39 and skillMatch 34
C24_Witness ==
    /\ decisionResult # NoResult
    /\ metrics.authenticity = 39
    /\ metrics.skillMatch = 34
    /\ decisionResult.decision = "REJECT"

\* REJECT < HOLD < PASS
verdictRank(decision) ==
    CASE decision = "REJECT" -> 0
      [] decision = "HOLD" -> 1
      [] decision = "PASS" -> 2

\* C25: raising any one of skillMatch, authenticity, depth, communication
\* or consistency with the other four fixed never lowers the verdict of
\* makeDecision, in the order REJECT < HOLD < PASS.
C25_VerdictMonotone ==
    earlierDecision # NoResult =>
        /\ \E metric \in DOMAIN metrics :
               /\ metrics[metric] > earlierDecision.metrics[metric]
               /\ metrics = [earlierDecision.metrics EXCEPT ![metric] = metrics[metric]]
        /\ verdictRank(decisionResult.decision) >= verdictRank(earlierDecision.result.decision)

\* a rise of depth alone that lifts the verdict from HOLD to PASS
C25_Witness ==
    /\ earlierDecision # NoResult
    /\ metrics.depth > earlierDecision.metrics.depth
    /\ earlierDecision.result.decision = "HOLD"
    /\ decisionResult.decision = "PASS"

\* the answers a question may receive: its own and one per follow-up
answerBudget(q) == 1 + getMaxFollowUps(q)

\* the answers of this session submitted while q was the current question
answersTo(q) == Len(SelectSeq(submitted, LAMBDA a : a.question = q.id))

\* the sum over all questions of 1 + getMaxFollowUps(question)
totalBudget == SumSeq([i \in DOMAIN questions |-> answerBudget(questions[i])])

\* the answers the interview can still take: the budgets of the current and
\* the later questions, less the follow-ups the current question has had
remainingBudget ==
    SumSeq([i \in 1..(Len(questions) - currentQuestionIndex) |->
               answerBudget(questions[currentQuestionIndex + i])])
    - followUpsOf(followUpCount, questions[currentQuestionIndex + 1].id)

allAnswered(qas) == \A i \in DOMAIN qas : qas[i].answerLength > 0

\* C27: a session that ends with fewer than two recorded answers never
\* receives PASS: with no answers the authenticity metric is 50, with one
\* answer the consistency score is 50 and the session authenticity score at
\* most 50, below the PASS threshold of 65, whatever the skill match and the
\* quality of the answer.
C27_FewAnswersNoPass ==
    (decisionResult # NoResult /\ Len(qaInput) < 2 /\ allAnswered(qaInput)) =>
        /\ decisionResult.decision # "PASS"
        /\ metrics.authenticity < EVALUATION_THRESHOLDS.pass.authenticity
        /\ Len(qaInput) = 0 => metrics.authenticity = 50
        /\ Len(qaInput) = 1 => /\ authResult.consistencyScore = 50
                               /\ authResult.score <= 50
                               /\ metrics.authenticity <= 50

\* one answer of score 100 without red flags, skill match 100, depth 90 and
\* communication 100: overall score 78, and the verdict is HOLD
C27_Witness ==
    /\ decisionResult # NoResult
    /\ Len(qaInput) = 1
    /\ qaInput[1].score = 100
    /\ qaInput[1].redFlags = 0
    /\ qaInput[1].answerLength > 0
    /\ metrics.skillMatch = 100
    /\ decisionResult.overallScore >= EVALUATION_THRESHOLDS.pass.overall
    /\ decisionResult.decision = "HOLD"

\* C29: in the pipeline calculateOverallAuthenticity, generateAuthenticityReport,
\* calculateEvaluationMetrics, makeDecision the metrics passed to makeDecision
\* have authenticity in 20..100 and consistency in 50..100 for every answer
\* list, so the concern "Inconsistent depth across topics" is never produced.
C29_PipelineRanges ==
    decisionResult # NoResult =>
        /\ metrics.authenticity \in 20..100
        /\ metrics.consistency \in 50..100
        /\ decisionResult.metrics = metrics
        /\ "Inconsistent depth across topics" \notin entriesOf(decisionResult.concerns)

\* two answers whose specificity scores are 0 and 100, so that the deviation
\* term is cut at 50, and red flags that bring the score down to the floor
C29_Witness ==
    /\ decisionResult # NoResult
    /\ Len(qaInput) = 2
    /\ qaInput[1].specificity = 0
    /\ qaInput[2].specificity = 100
    /\ metrics.consistency = 50
    /\ metrics.authenticity = 20

\* resumeSkills.find(...) of the preferred loop finds a match for req
preferredMatched(resumeSkills, req) ==
    \E j \in DOMAIN resumeSkills :
        \/ toLowerCase(resumeSkills[j].skill) = toLowerCase(req.skill)
        \/ includes(toLowerCase(resumeSkills[j].skill), toLowerCase(req.skill))

\* C28: every preferred skill that is matched in the resume is classified
\* strong and never weak: the confidence of any matched skill is at least 60
\* (base 50 plus at least 10 for one mention) and at most 100, so the
\* preferred threshold of 60 is always met.
C28_PreferredAlwaysStrong ==
    (mapResult # NoResult /\ mapResult # Thrown) =>
        LET extracted == extractSkillsFromResume(resumeText).value
            preferred == mapResult.requirements.niceToHave
        IN /\ \A j \in DOMAIN extracted :
                  /\ extracted[j].mentions >= 1
                  /\ calculateSkillConfidence(extracted[j]) \in 60..100
           /\ \A i \in DOMAIN preferred :
                  preferredMatched(extracted, preferred[i])
                      => /\ placedIn(mapResult.strong, preferred[i])
                         /\ ~ placedIn(mapResult.weak, preferred[i])
           /\ \A j \in DOMAIN mapResult.weak : mapResult.weak[j].importance = "required"
           /\ \A j \in DOMAIN mapResult.strong : mapResult.strong[j].confidence \in 60..100

\* a preferred skill matched with one mention and no context: confidence 60,
\* classified strong
C28_Witness ==
    /\ mapResult # NoResult
    /\ mapResult # Thrown
    /\ \E j \in DOMAIN mapResult.strong :
           /\ mapResult.strong[j].importance = "preferred"
           /\ mapResult.strong[j].confidence = 60

\* the question on screen has follow-up budget left
budgetLeft ==
    followUpsOf(followUpCount, questions[currentQuestionIndex + 1].id)
        < getMaxFollowUps(questions[currentQuestionIndex + 1])

\* handleTimeUp hands '[No response provided]' to processAnswer
TimerForcedStep ==
    /\ mounted
    /\ Len(submitted') = Len(submitted) + 1
    /\ submitted'[Len(submitted')].answer = NoResponseAnswer.text

\* processAnswer goes on after its await with the timer-forced answer
TimerForcedDone ==
    /\ mounted
    /\ pendingAnswer # NoResult
    /\ pendingAnswer.answer = NoResponseAnswer.text
    /\ pendingAnswer' = NoResult

\* C30: every answer shorter than 75 characters makes analyzeNeedForFollowUp
\* return needsFollowUp = true, so a timer-forced "[No response provided]"
\* answer never advances the interview while the current question still has
\* follow-up budget: it is answered with a follow-up instead.
C30_TimerForcedFollowUp ==
    /\ [](\A a \in AnswerProfiles :
              a.length < 75 => analyzeNeedForFollowUp(a).needsFollowUp)
    /\ [][(TimerForcedStep /\ budgetLeft)
              => /\ currentQuestionIndex' = currentQuestionIndex
                 /\ pendingAnswer' # NoResult]_vars
    /\ [][(TimerForcedDone /\ budgetLeft)
              => /\ currentQuestionIndex' = currentQuestionIndex
                 /\ ~ interviewComplete'
                 /\ Len(followUps') = Len(followUps) + 1]_vars

====
